---- MODULE Spec2Model ----
(***************************************************************************)
(* Scarlet Swap content script (src/content.js): rule selection, rule      *)
(* compilation, the substitution engine, the DOM scanner and the mutation  *)
(* watcher, as a state machine.                                            *)
(*                                                                         *)
(* Strings are sequences of one-character strings, positions are 0-based   *)
(* as in JavaScript: the character at position i of s is s[i + 1].         *)
(***************************************************************************)
EXTENDS Integers, Sequences, FiniteSets, TLC

VARIABLES
    scan,       \* processNodeWithApplicableRules: the locals of one call
    scanLog,    \* history: the matches regex.exec returned for the current rule
    sel,        \* getActiveRules: one call, its settings and its result
    store,      \* chrome.storage: the sync and the local namespace
    currentSettings,
    isProcessing,
    observer,   \* TRUE iff a MutationObserver is connected (observer # null)
    records,    \* the connected observer's pending mutation records
    rafQueue,   \* requestAnimationFrame callbacks not yet run, oldest first
    inits,      \* initialize() calls suspended at an await
    dom,        \* the nodes ever created, by node id
    kids,       \* the child list of each node
    pageOps,    \* number of changes the page's own scripts have made
    trail       \* history: what the last rewrite pass did

vars == <<scan, scanLog, sel, store, currentSettings, isProcessing, observer,
          records, rafQueue, inits, dom, kids, pageOps, trail>>

engineVars == <<scan, scanLog>>
pageVars == <<store, currentSettings, isProcessing, observer, records,
              rafQueue, inits, dom, kids, pageOps, trail>>

(***************************************************************************)
(* Bounds                                                                  *)
(***************************************************************************)
MaxLen == 3         \* longest text node content the engine is run on
MaxRules == 2       \* longest applicable rule list the engine is run on
MaxBundles == 2     \* longest ruleBundles list given to getActiveRules
MaxPatterns == 2    \* longest pattern list of the global domain filter
MaxEvents == 2      \* events from outside the content script: changes the
                    \* page's scripts make, settings writes, reload messages

(***************************************************************************)
(* Characters                                                              *)
(***************************************************************************)
UpperChars == {"M", "U", "T", "N", "X"}

LowerChars == {"a", "b", "c", "e", "f", "g", "h", "i", "m", "n", "o", "r",
               "s", "t", "u", "v", "x", "y", "z"}

\* \w of a JavaScript regular expression, for the characters of the model
IsWordChar(c) == c \in UpperChars \cup LowerChars

\* Canonicalize of a case-insensitive match
Lower(c) ==
    CASE c = "M" -> "m"
      [] c = "U" -> "u"
      [] c = "T" -> "t"
      [] c = "N" -> "n"
      [] c = "X" -> "x"
      [] OTHER -> c

\* the characters escapeRegExp escapes: . * + ? ^ $ { } ( ) | [ ] \
RegExpSpecial == {".", "*", "+", "?", "^", "$", "{", "}", "(", ")", "|",
                  "[", "]", "\\"}

RECURSIVE escapeRegExp(_)
escapeRegExp(str) ==
    IF str = <<>> THEN <<>>
    ELSE (IF Head(str) \in RegExpSpecial THEN <<"\\", Head(str)>>
          ELSE <<Head(str)>>) \o escapeRegExp(Tail(str))

(***************************************************************************)
(* new RegExp(pattern, flags), for the pattern language of the model:      *)
(* characters, escaped characters, the wildcard ., the assertion \b and    *)
(* the quantifier *.                                                       *)
(***************************************************************************)
CharAtom(c) == [kind |-> "char", ch |-> c, star |-> FALSE]
AnyAtom == [kind |-> "any", ch |-> "", star |-> FALSE]
WbAtom == [kind |-> "wb", ch |-> "", star |-> FALSE]
NoRegExp == [ok |-> FALSE, atoms |-> <<>>, ignoreCase |-> FALSE]

RECURSIVE ParseFrom(_, _, _)
ParseFrom(src, i, acc) ==
    IF i > Len(src) THEN [ok |-> TRUE, atoms |-> acc]
    ELSE IF src[i] = "\\" THEN
        IF i = Len(src) THEN [ok |-> FALSE, atoms |-> <<>>]      \* "\ at end of pattern"
        ELSE IF src[i + 1] = "b" THEN ParseFrom(src, i + 2, Append(acc, WbAtom))
        ELSE ParseFrom(src, i + 2, Append(acc, CharAtom(src[i + 1])))
    ELSE IF src[i] = "*" THEN
        IF acc = <<>> \/ acc[Len(acc)].kind = "wb" \/ acc[Len(acc)].star
        THEN [ok |-> FALSE, atoms |-> <<>>]                      \* "nothing to repeat"
        ELSE ParseFrom(src, i + 1, [acc EXCEPT ![Len(acc)].star = TRUE])
    ELSE IF src[i] = "." THEN ParseFrom(src, i + 1, Append(acc, AnyAtom))
    ELSE ParseFrom(src, i + 1, Append(acc, CharAtom(src[i])))

\* new RegExp(pattern, 'g' or 'gi'); ok = FALSE is the SyntaxError
NewRegExp(pattern, ignoreCase) ==
    LET p == ParseFrom(pattern, 1, <<>>)
    IN  [ok |-> p.ok, atoms |-> p.atoms, ignoreCase |-> ignoreCase]

\* every comparison ignores case, whatever the flags
CharEqAnyCase(re, c, d) == Lower(c) = Lower(d)

CharEq(re, c, d) == IF re.ignoreCase THEN Lower(c) = Lower(d) ELSE c = d

\* does atom a match the character c
AtomMatches(re, a, c) == a.kind = "any" \/ CharEq(re, c, a.ch)

\* \b at position pos of text
IsBoundary(text, pos) ==
    LET before == pos > 0 /\ IsWordChar(text[pos])
        after == pos < Len(text) /\ IsWordChar(text[pos + 1])
    IN  before # after

\* the number of consecutive characters atom a matches from position pos on
RECURSIVE RunLength(_, _, _, _)
RunLength(re, a, text, pos) ==
    IF pos < Len(text) /\ AtomMatches(re, a, text[pos + 1])
    THEN 1 + RunLength(re, a, text, pos + 1)
    ELSE 0

\* The backtracking matcher: the end of the match of atoms k.. at position
\* pos, or -1. A starred atom is greedy: the longest run is tried first.
RECURSIVE MatchFrom(_, _, _, _)
RECURSIVE TryStar(_, _, _, _, _)
MatchFrom(re, k, text, pos) ==
    IF k > Len(re.atoms) THEN pos
    ELSE LET a == re.atoms[k]
         IN  IF a.kind = "wb"
             THEN IF IsBoundary(text, pos) THEN MatchFrom(re, k + 1, text, pos) ELSE -1
             ELSE IF a.star
             THEN TryStar(re, k, text, pos, RunLength(re, a, text, pos))
             ELSE IF pos < Len(text) /\ AtomMatches(re, a, text[pos + 1])
             THEN MatchFrom(re, k + 1, text, pos + 1)
             ELSE -1

TryStar(re, k, text, pos, n) ==
    LET e == MatchFrom(re, k + 1, text, pos + n)
    IN  IF e # -1 THEN e
        ELSE IF n = 0 THEN -1
        ELSE TryStar(re, k, text, pos, n - 1)

NoMatch == [found |-> FALSE, index |-> 0, end |-> 0]

\* regex.exec(text) of a global regex whose lastIndex is lastIndex: the first
\* match starting at or after lastIndex. The caller stores the new lastIndex:
\* the match's end, or 0 when there is no match.
RECURSIVE Exec(_, _, _)
Exec(re, text, lastIndex) ==
    IF lastIndex > Len(text) THEN NoMatch
    ELSE LET e == MatchFrom(re, 1, text, lastIndex)
         IN  IF e # -1 THEN [found |-> TRUE, index |-> lastIndex, end |-> e]
             ELSE Exec(re, text, lastIndex + 1)

\* regex.test(text) after regex.lastIndex = 0
TestFromStart(re, text) == Exec(re, text, 0).found

\* text.substring(from, to)
Substring(text, from, to) == SubSeq(text, from + 1, to)

\* str.replace(regex, replacement) of a global regex: every match from
\* position 0 on is replaced, an empty match advances lastIndex by one.
RECURSIVE ReplaceFrom(_, _, _, _, _)
ReplaceFrom(re, str, replacement, lastIndex, nextSource) ==
    LET m == Exec(re, str, lastIndex)
    IN  IF ~m.found THEN Substring(str, nextSource, Len(str))
        ELSE LET nextIndex == IF m.end = m.index THEN m.end + 1 ELSE m.end
                 piece == IF m.index >= nextSource
                          THEN Substring(str, nextSource, m.index) \o replacement
                          ELSE <<>>
                 nextSrc == IF m.index >= nextSource THEN m.end ELSE nextSource
             IN  piece \o ReplaceFrom(re, str, replacement, nextIndex, nextSrc)

StringReplace(str, re, replacement) == ReplaceFrom(re, str, replacement, 0, 0)

(***************************************************************************)
(* Rules and the rule compiler                                             *)
(***************************************************************************)
InheritList == [type |-> "inherit", domains |-> <<>>]

Rule(id, find, replace, isRegex, isCaseSensitive, isWholeWord) ==
    [id |-> id, find |-> find, replace |-> replace, isRegex |-> isRegex,
     isCaseSensitive |-> isCaseSensitive, isWholeWord |-> isWholeWord,
     domainList |-> InheritList]

\* pattern starts (ends) with the two characters \b
StartsWithWb(p) == Len(p) >= 2 /\ p[1] = "\\" /\ p[2] = "b"
EndsWithWb(p) == Len(p) >= 2 /\ p[Len(p) - 1] = "\\" /\ p[Len(p)] = "b"

\* null is the record with ok = FALSE
createRegExpForRule(rule) ==
    IF rule.find = <<>> THEN NoRegExp
    ELSE LET pattern == IF rule.isRegex THEN rule.find ELSE escapeRegExp(rule.find)
             startBoundary == IF ~IsWordChar(pattern[1]) \/ StartsWithWb(pattern)
                              THEN <<>> ELSE <<"\\", "b">>
             endBoundary == IF ~IsWordChar(pattern[Len(pattern)]) \/ EndsWithWb(pattern)
                            THEN <<>> ELSE <<"\\", "b">>
             whole == IF rule.isWholeWord /\ ~rule.isRegex
                      THEN startBoundary \o pattern \o endBoundary
                      ELSE pattern
         IN  NewRegExp(whole, ~rule.isCaseSensitive)

Compiled(rule) == [rule |-> rule, regex |-> createRegExpForRule(rule)]

(***************************************************************************)
(* processNodeWithApplicableRules: the scan of one text node.  A scan      *)
(* state holds the locals of the call; ScanStep is one step of it: the     *)
(* entry of the forEach body for the next rule, or one iteration of the    *)
(* while loop.                                                             *)
(***************************************************************************)
\* the pieces of a fragment; rule is history: the id of the rule whose match
\* the span replaces
TextPiece(value) ==
    [kind |-> "text", value |-> value, orig |-> <<>>, title |-> <<>>, rule |-> ""]
SpanPiece(value, orig, title, rule) ==
    [kind |-> "span", value |-> value, orig |-> orig, title |-> title, rule |-> rule]

Arrow == <<" ", "-", ">", " ">>

ScanStart(text, rules, disabled, parentTitle) ==
    [pc |-> "rule", originalText |-> text, rules |-> rules, disabled |-> disabled,
     parentTitle |-> parentTitle, ri |-> 1, lastIndex |-> 0, textCursor |-> 0,
     hasFragment |-> FALSE, fragment |-> <<>>]

ScanIdle == [ScanStart(<<>>, <<>>, {}, <<>>) EXCEPT !.pc = "idle"]

\* as ScanRule, without the test of the disabled ids
ScanRuleUnchecked(st) ==
    IF st.ri > Len(st.rules)
    THEN [st EXCEPT !.pc = "done",
                    !.fragment =
                        IF st.hasFragment /\ st.textCursor < Len(st.originalText)
                        THEN Append(st.fragment, TextPiece(
                                 Substring(st.originalText, st.textCursor,
                                           Len(st.originalText))))
                        ELSE st.fragment]
    ELSE [st EXCEPT !.pc = "exec", !.lastIndex = 0]

\* the forEach callback is entered for rule ri, or the forEach is over
ScanRule(st) ==
    IF st.ri > Len(st.rules)
    THEN [st EXCEPT !.pc = "done",
                    !.fragment =
                        IF st.hasFragment /\ st.textCursor < Len(st.originalText)
                        THEN Append(st.fragment, TextPiece(
                                 Substring(st.originalText, st.textCursor,
                                           Len(st.originalText))))
                        ELSE st.fragment]
    ELSE IF st.rules[st.ri].rule.id \in st.disabled
    THEN [st EXCEPT !.ri = st.ri + 1]
    ELSE [st EXCEPT !.pc = "exec", !.lastIndex = 0]

\* the span built for an accepted match
\* as MakeSpan, with the matched text alone as the title
MakeSpanClobbering(st, orig) ==
    LET r == st.rules[st.ri]
    IN  SpanPiece(StringReplace(orig, r.regex, r.rule.replace), orig, orig,
                  r.rule.id)

MakeSpan(st, orig) ==
    LET r == st.rules[st.ri]
    IN  SpanPiece(StringReplace(orig, r.regex, r.rule.replace), orig,
                  IF st.parentTitle # <<>> THEN st.parentTitle \o Arrow \o orig
                  ELSE orig,
                  r.rule.id)

\* as Verbatim, copying from the start of the text for every match
VerbatimFromStart(st, matchIndex) ==
    IF matchIndex > 0
    THEN <<TextPiece(Substring(st.originalText, 0, matchIndex))>>
    ELSE <<>>

\* the text copied in front of an accepted match
Verbatim(st, matchIndex) ==
    IF ~st.hasFragment
    THEN IF matchIndex > 0
         THEN <<TextPiece(Substring(st.originalText, 0, matchIndex))>>
         ELSE <<>>
    ELSE IF matchIndex > st.textCursor
         THEN <<TextPiece(Substring(st.originalText, st.textCursor, matchIndex))>>
         ELSE <<>>

\* as Accepts, without the comparison with the cursor
AcceptsAll(st, matchIndex) == matchIndex >= 0

\* is the match that begins at matchIndex processed (not skipped)
Accepts(st, matchIndex) == matchIndex >= st.textCursor

\* as ZeroLengthAdvance, without the manual advance
ZeroLengthStay(lastIndex) == lastIndex

\* regex.lastIndex after a zero-length match that is not at the end of the text
ZeroLengthAdvance(lastIndex) == lastIndex + 1

\* one evaluation of the while condition and, on a match, of the loop body
ScanExec(st) ==
    LET m == Exec(st.rules[st.ri].regex, st.originalText, st.lastIndex)
        orig == Substring(st.originalText, m.index, m.end)
        st1 == IF Accepts(st, m.index)
               THEN [st EXCEPT !.fragment = st.fragment \o Verbatim(st, m.index)
                                              \o <<MakeSpan(st, orig)>>,
                               !.hasFragment = TRUE,
                               !.textCursor = m.end,
                               !.lastIndex = m.end]
               ELSE [st EXCEPT !.lastIndex = m.end]
    IN  IF ~m.found THEN [st EXCEPT !.pc = "rule", !.ri = st.ri + 1, !.lastIndex = 0]
        ELSE IF m.end = m.index
        THEN IF st1.lastIndex = Len(st.originalText)
             THEN [st1 EXCEPT !.pc = "rule", !.ri = st.ri + 1]
             ELSE [st1 EXCEPT !.lastIndex = ZeroLengthAdvance(st1.lastIndex)]
        ELSE st1

ScanStep(st) == IF st.pc = "rule" THEN ScanRule(st) ELSE ScanExec(st)

\* the whole call: the scan state when the forEach is over
\* the element of a one-element set: Only({F(x) : x \in {e}}) is F(e) with e
\* evaluated once
Only(S) == CHOOSE x \in S : TRUE

RECURSIVE RunScan(_)
RunScan(st) ==
    IF st.pc = "done" THEN st
    ELSE Only({RunScan(next) : next \in {ScanStep(st)}})

(***************************************************************************)
(* The fallback rules of content.js and the rules used as inputs           *)
(***************************************************************************)
UniversityOfMichigan ==
    <<"U", "n", "i", "v", "e", "r", "s", "i", "t", "y", " ", "o", "f", " ",
      "M", "i", "c", "h", "i", "g", "a", "n">>

Michigan == <<"M", "i", "c", "h", "i", "g", "a", "n">>

TTUN == <<"T", "T", "U", "N">>

fallbackDefaultRules ==
    <<Rule("default_TTUN_long", UniversityOfMichigan, TTUN, FALSE, FALSE, TRUE),
      Rule("default_TTUN_short", Michigan, TTUN, FALSE, FALSE, TRUE),
      Rule("default_m", <<"m">>, <<"x">>, FALSE, TRUE, FALSE),
      Rule("default_M", <<"M">>, <<"X">>, FALSE, TRUE, FALSE)>>

RuleA == Rule("rule_a", <<"a">>, <<"z">>, FALSE, TRUE, FALSE)
RuleAm == Rule("rule_am", <<"a", "m">>, <<"y">>, FALSE, FALSE, FALSE)
RuleXStar == Rule("rule_xstar", <<"x", "*">>, <<"y">>, TRUE, TRUE, FALSE)
RuleWord == Rule("rule_word", <<"m">>, <<"w">>, FALSE, FALSE, TRUE)

EngineRules == {fallbackDefaultRules[3], RuleA, RuleAm, RuleXStar, RuleWord}

EngineChars == {"a", "m", "x"}

\* the strings over chars of length at most n
TextsUpTo(chars, n) == UNION {[1..k -> chars] : k \in 0..n}

\* the sequences without repetition over set of length at most n
ListsUpTo(set, n) ==
    {l \in UNION {[1..k -> set] : k \in 0..n} :
        \A i, j \in 1..Len(l) : i # j => l[i] # l[j]}

RECURSIVE MapCompiled(_)
MapCompiled(rules) ==
    IF rules = <<>> THEN <<>>
    ELSE <<Compiled(Head(rules))>> \o MapCompiled(Tail(rules))

(***************************************************************************)
(* The engine on its own: one call of processNodeWithApplicableRules on    *)
(* every text and rule list within the bounds, step by step.               *)
(***************************************************************************)
PageIdle ==
    /\ store = <<>>
    /\ currentSettings = <<>>
    /\ isProcessing = FALSE
    /\ observer = FALSE
    /\ records = <<>>
    /\ rafQueue = <<>>
    /\ inits = <<>>
    /\ dom = <<>>
    /\ kids = <<>>
    /\ pageOps = 0
    /\ trail = <<>>

SelIdle == [pc |-> "idle"]

InitEngine ==
    /\ scan = ScanIdle
    /\ scanLog = <<>>
    /\ sel = SelIdle
    /\ PageIdle

\* processNodeWithApplicableRules is called on a text node
EngineCall ==
    /\ scan.pc = "idle"
    /\ \E text \in TextsUpTo(EngineChars, MaxLen),
          rules \in ListsUpTo(EngineRules, MaxRules),
          disabled \in {{}, {RuleA.id}},
          parentTitle \in {<<>>, <<"m">>} :
            scan' = ScanStart(text, MapCompiled(rules), disabled, parentTitle)
    /\ UNCHANGED <<scanLog, sel, pageVars>>

\* history: the match exec returned, the cursor it was compared with, and
\* whether the loop body skipped it (the fragment did not grow)
LogEntry(st, st2) ==
    LET m == Exec(st.rules[st.ri].regex, st.originalText, st.lastIndex)
    IN  [rule |-> st.ri, from |-> st.lastIndex, index |-> m.index, end |-> m.end,
         cursor |-> st.textCursor,
         skipped |-> (st2.fragment = st.fragment)]

EngineRule ==
    /\ scan.pc = "rule"
    /\ scan' = ScanRule(scan)
    /\ UNCHANGED <<scanLog, sel, pageVars>>

EngineExec ==
    /\ scan.pc = "exec"
    /\ scan' = ScanExec(scan)
    /\ scanLog' = IF Exec(scan.rules[scan.ri].regex, scan.originalText,
                          scan.lastIndex).found
                  THEN Append(scanLog, LogEntry(scan, scan'))
                  ELSE scanLog
    /\ UNCHANGED <<sel, pageVars>>

NextEngine == EngineCall \/ EngineRule \/ EngineExec

SpecEngine == InitEngine /\ [][NextEngine]_vars

(***************************************************************************)
(* Properties of the substitution engine                                   *)
(***************************************************************************)
LogIds == 1..Len(scanLog)

\* the end of the last match accepted before log entry i, 0 if there is none
RECURSIVE ConsumedBefore(_)
ConsumedBefore(i) ==
    IF i = 1 THEN 0
    ELSE IF ~scanLog[i - 1].skipped THEN scanLog[i - 1].end
    ELSE ConsumedBefore(i - 1)

\* C5: within one text node the accepted matches are pairwise non-overlapping
\* intervals of the original text, in increasing order, whatever the number of
\* rules; and a match is skipped exactly when it begins before the cursor,
\* the cursor being the end of the text consumed so far (the end of the last
\* accepted match).
C5_NonOverlapping ==
    /\ \A i, j \in LogIds :
        (i < j /\ ~scanLog[i].skipped /\ ~scanLog[j].skipped)
            => scanLog[i].end <= scanLog[j].index
    /\ \A i \in LogIds :
        /\ scanLog[i].skipped <=> (scanLog[i].index < scanLog[i].cursor)
        /\ scanLog[i].cursor = ConsumedBefore(i)

\* two rules have accepted a match each and a match of the later rule was skipped
C5_Witness ==
    \E i, j, k \in LogIds :
        /\ i < j /\ j < k
        /\ ~scanLog[i].skipped /\ scanLog[j].skipped /\ ~scanLog[k].skipped
        /\ scanLog[i].rule # scanLog[k].rule

\* the original text a fragment stands for: the verbatim pieces and, for each
\* span, the text its match covered
RECURSIVE OriginalOf(_)
OriginalOf(fragment) ==
    IF fragment = <<>> THEN <<>>
    ELSE (IF Head(fragment).kind = "span" THEN Head(fragment).orig
          ELSE Head(fragment).value) \o OriginalOf(Tail(fragment))

\* C6: the fragment of a rewritten node is, in order, the verbatim prefix, the
\* spans, the verbatim infixes and the verbatim suffix: the verbatim pieces
\* and the spans' original matched texts concatenate to the text up to the
\* cursor while the scan runs, and to the whole original text when it is over.
C6_TextPreserved ==
    scan.pc # "idle" =>
        /\ scan.hasFragment <=> (scan.fragment # <<>>)
        /\ scan.hasFragment =>
            OriginalOf(scan.fragment) =
                (IF scan.pc = "done" THEN scan.originalText
                 ELSE Substring(scan.originalText, 0, scan.textCursor))
        /\ \A i \in 1..Len(scan.fragment) :
            scan.fragment[i].kind = "text" => scan.fragment[i].value # <<>>

\* a finished rewrite with a verbatim prefix, a span and a verbatim suffix
C6_Witness ==
    /\ scan.pc = "done"
    /\ Len(scan.fragment) >= 3
    /\ scan.fragment[1].kind = "text"
    /\ scan.fragment[2].kind = "span"
    /\ scan.fragment[Len(scan.fragment)].kind = "text"

\* does the pattern match the empty string
MatchesEmpty(re) == MatchFrom(re, 1, <<>>, 0) = 0

\* the log entries of rule r whose match passes position p
Passing(r, p) ==
    {i \in LogIds :
        /\ scanLog[i].rule = r
        /\ \/ scanLog[i].index = p
           \/ scanLog[i].index < p /\ p < scanLog[i].end}

\* the scan of rule r is over
RuleOver(r) == scan.pc = "done" \/ scan.ri > r

AdvancesOnce ==
    /\ \A i, j \in LogIds :
        (i < j /\ scanLog[i].rule = scanLog[j].rule)
            => /\ scanLog[i].index < scanLog[j].index
               /\ scanLog[i].from < scanLog[j].from
               /\ scanLog[i].end <= scanLog[j].index
    /\ \A r \in 1..Len(scan.rules) :
        (/\ RuleOver(r)
         /\ scan.rules[r].rule.id \notin scan.disabled
         /\ MatchesEmpty(scan.rules[r].regex))
            => \A p \in 0..Len(scan.originalText) : Cardinality(Passing(r, p)) = 1

\* every evaluation of the while condition starts at a position of the text
\* and, AdvancesOnce making these positions increase strictly within one rule,
\* a rule's loop runs at most length + 1 times
BoundedScan ==
    /\ scan.pc \in {"rule", "exec"} =>
        /\ scan.ri \in 1..(Len(scan.rules) + 1)
        /\ scan.lastIndex \in 0..Len(scan.originalText)
    /\ \A i \in LogIds : scanLog[i].from \in 0..Len(scan.originalText)
    /\ \A r \in 1..Len(scan.rules) :
        Cardinality({i \in LogIds : scanLog[i].rule = r})
            <= Len(scan.originalText) + 1

\* C7: for every rule list and text the scan loop terminates: the positions
\* the matcher is restarted from increase strictly within 0..length, so each
\* rule's loop ends after at most length + 1 matches; and a pattern that
\* matches the empty string passes every position 0..length exactly once.
C7_ScanTerminates == AdvancesOnce /\ BoundedScan

\* a finished scan in which a zero-width pattern matched the empty string at
\* two positions and a non-empty string at another
C7_Witness ==
    /\ scan.pc = "done"
    /\ \E i, j, k \in LogIds :
        /\ i < j
        /\ scanLog[i].rule = scanLog[j].rule /\ scanLog[j].rule = scanLog[k].rule
        /\ scanLog[i].index = scanLog[i].end
        /\ scanLog[j].index = scanLog[j].end
        /\ scanLog[k].index < scanLog[k].end

(***************************************************************************)
(* getActiveRules: rule selection from the settings                        *)
(***************************************************************************)
NullId == "null"

Bundle(id, isDefault, source, requiresLicense, rules) ==
    [id |-> id, isDefault |-> isDefault, source |-> source,
     requiresLicense |-> requiresLicense, rules |-> rules]

\* Array.prototype.find: the index of the first bundle with the id, 0 if none
RECURSIVE FindById(_, _, _)
FindById(bundles, id, i) ==
    IF i > Len(bundles) THEN 0
    ELSE IF bundles[i].id = id THEN i
    ELSE FindById(bundles, id, i + 1)

\* the index of the first bundle with isDefault === true, 0 if none
RECURSIVE FindDefault(_, _)
FindDefault(bundles, i) ==
    IF i > Len(bundles) THEN 0
    ELSE IF bundles[i].isDefault = TRUE THEN i
    ELSE FindDefault(bundles, i + 1)

\* as FallbackRules, without the lookup of the stored default bundle
FallbackRulesHardcoded(cs) == fallbackDefaultRules

\* the unlicensed fallback: the stored default bundle, else the hardcoded rules
FallbackRules(cs) ==
    LET d == FindDefault(cs.ruleBundles, 1)
    IN  IF d # 0 THEN cs.ruleBundles[d].rules ELSE fallbackDefaultRules

\* as LicensedRules, falling back when the active bundle is not found
LicensedRulesOrFallback(cs) ==
    LET a == FindById(cs.ruleBundles, cs.activeBundleId, 1)
    IN  IF a # 0 THEN cs.ruleBundles[a].rules ELSE FallbackRules(cs)

\* the licensed branch: activeBundle?.rules || []
LicensedRules(cs) ==
    LET a == FindById(cs.ruleBundles, cs.activeBundleId, 1)
    IN  IF a # 0 THEN cs.ruleBundles[a].rules ELSE <<>>

\* as IsFreeActive, with the license test the wrong way round
IsFreeActiveInverted(cs) ==
    LET a == FindById(cs.ruleBundles, cs.activeBundleId, 1)
    IN  a # 0 /\ cs.ruleBundles[a].requiresLicense = TRUE

\* activeBundle && activeBundle.requiresLicense === false
IsFreeActive(cs) ==
    LET a == FindById(cs.ruleBundles, cs.activeBundleId, 1)
    IN  a # 0 /\ cs.ruleBundles[a].requiresLicense = FALSE

getActiveRules(cs) ==
    IF cs.isLicensed THEN LicensedRules(cs)
    ELSE IF IsFreeActive(cs)
    THEN cs.ruleBundles[FindById(cs.ruleBundles, cs.activeBundleId, 1)].rules
    ELSE FallbackRules(cs)

(***************************************************************************)
(* Bundles used as inputs: the installed default bundle of the background  *)
(* script, the empty default bundle the options page creates when no       *)
(* bundle is stored, preloaded bundles and user bundles.                   *)
(***************************************************************************)
BuckeyeBundle ==
    Bundle("default_buckeye", TRUE, "hardcoded", FALSE, fallbackDefaultRules)
LoadErrorBundle == Bundle("default_load_error", TRUE, "hardcoded", FALSE, <<>>)
PremiumBundle == Bundle("preloaded_premium", FALSE, "preloaded", TRUE, <<RuleAm>>)
FreeBundle == Bundle("preloaded_free", FALSE, "preloaded", FALSE, <<RuleA>>)
UserBundle == Bundle("bundle_user", FALSE, "user", FALSE, <<RuleXStar, RuleA>>)
EmptyUserBundle == Bundle("bundle_empty", FALSE, "user", FALSE, <<>>)

BundlePool == {BuckeyeBundle, LoadErrorBundle, PremiumBundle, FreeBundle,
               UserBundle, EmptyUserBundle}

\* bundle lists as stored: distinct ids, at most one default bundle
BundleLists(n) ==
    {l \in ListsUpTo(BundlePool, n) :
        Cardinality({i \in 1..Len(l) : l[i].isDefault}) <= 1}

SelectorInputs ==
    [isLicensed : BOOLEAN,
     ruleBundles : BundleLists(MaxBundles),
     activeBundleId : {b.id : b \in BundlePool} \cup {NullId}]

InitSelect ==
    /\ sel = SelIdle
    /\ scan = ScanIdle
    /\ scanLog = <<>>
    /\ PageIdle

\* getActiveRules is entered with some settings
SelectCall ==
    /\ sel.pc = "idle"
    /\ \E cs \in SelectorInputs : sel' = [pc |-> "called", settings |-> cs]
    /\ UNCHANGED <<engineVars, pageVars>>

\* getActiveRules returns
SelectReturn ==
    /\ sel.pc = "called"
    /\ sel' = [pc |-> "done", settings |-> sel.settings,
               result |-> getActiveRules(sel.settings)]
    /\ UNCHANGED <<engineVars, pageVars>>

NextSelect == SelectCall \/ SelectReturn

SpecSelect == InitSelect /\ [][NextSelect]_vars

(***************************************************************************)
(* Properties of rule selection                                            *)
(***************************************************************************)
SelBundles == sel.settings.ruleBundles

\* the bundles of the settings with the active id, and the default bundles
ActiveBundles == {i \in 1..Len(SelBundles) : SelBundles[i].id = sel.settings.activeBundleId}
DefaultBundles == {i \in 1..Len(SelBundles) : SelBundles[i].isDefault}

\* unlicensed, and the active id names a bundle that requires a license or no bundle
Downgraded ==
    /\ sel.pc = "done"
    /\ ~sel.settings.isLicensed
    /\ \A i \in ActiveBundles : SelBundles[i].requiresLicense

\* C8 as stated: after a license downgrade getActiveRules returns the rules
\* of the default bundle and, if a default bundle exists, never an empty list.
C8_NeverEmpty ==
    (Downgraded /\ DefaultBundles # {}) =>
        /\ \A d \in DefaultBundles : sel.result = SelBundles[d].rules
        /\ sel.result # <<>>

\* C8, amended: after a license downgrade getActiveRules returns the rules of
\* the default bundle if one exists (never the hardcoded rules, and a
\* non-empty list whenever that default bundle has a rule), and the
\* hardcoded fallback rules otherwise.
C8_FallsBackToDefault ==
    Downgraded =>
        /\ \A d \in DefaultBundles :
            /\ sel.result = SelBundles[d].rules
            /\ SelBundles[d].rules # <<>> => sel.result # <<>>
        /\ DefaultBundles = {} => sel.result = fallbackDefaultRules

\* a downgrade with a license-only active bundle and a default bundle with rules
C8_Witness ==
    /\ Downgraded
    /\ \E a \in ActiveBundles : SelBundles[a].requiresLicense
    /\ \E d \in DefaultBundles : SelBundles[d].rules # <<>> /\ sel.result = SelBundles[d].rules

\* C9: when licensed, getActiveRules returns exactly the rules of the bundle
\* whose id is activeBundleId, and the empty list if there is none.
C9_LicensedUsesActive ==
    (sel.pc = "done" /\ sel.settings.isLicensed) =>
        /\ \A a \in ActiveBundles : sel.result = SelBundles[a].rules
        /\ ActiveBundles = {} => sel.result = <<>>

\* licensed, the active id names no bundle, a default bundle is stored
C9_Witness ==
    /\ sel.pc = "done" /\ sel.settings.isLicensed
    /\ ActiveBundles = {} /\ DefaultBundles # {}
    /\ sel.result = <<>>

\* C10: when unlicensed and the active bundle exists and does not require a
\* license, getActiveRules returns that bundle's rules.
C10_FreeActiveWins ==
    (sel.pc = "done" /\ ~sel.settings.isLicensed) =>
        \A a \in ActiveBundles :
            ~SelBundles[a].requiresLicense => sel.result = SelBundles[a].rules

\* unlicensed with a free active bundle that is not the stored default bundle
C10_Witness ==
    /\ sel.pc = "done" /\ ~sel.settings.isLicensed
    /\ \E a \in ActiveBundles, d \in DefaultBundles :
        /\ a # d
        /\ ~SelBundles[a].requiresLicense
        /\ SelBundles[a].rules # SelBundles[d].rules
        /\ sel.result = SelBundles[a].rules

(***************************************************************************)
(* checkDomainForRule and the applicable rule set                          *)
(***************************************************************************)
RECURSIVE ToLowerCase(_)
ToLowerCase(str) ==
    IF str = <<>> THEN <<>> ELSE <<Lower(Head(str))>> \o ToLowerCase(Tail(str))

\* a literal pattern compared with the host as written
PatternMatchesExactCase(pattern, host) ==
    IF pattern # <<>> /\ pattern[1] = "/" /\ pattern[Len(pattern)] = "/"
    THEN LET re == NewRegExp(SubSeq(pattern, 2, Len(pattern) - 1), FALSE)
         IN  re.ok /\ TestFromStart(re, host)
    ELSE host = pattern

\* does one pattern of a domain list match the host; a pattern whose regular
\* expression is invalid throws, is caught and does not match
PatternMatches(pattern, host) ==
    IF pattern # <<>> /\ pattern[1] = "/" /\ pattern[Len(pattern)] = "/"
    THEN LET re == NewRegExp(SubSeq(pattern, 2, Len(pattern) - 1), FALSE)
         IN  re.ok /\ TestFromStart(re, host)
    ELSE ToLowerCase(host) = ToLowerCase(pattern)

\* the filter of the rule is never looked at
checkDomainGlobalOnly(rule, globalDomainList, host) ==
    LET filterType == globalDomainList.type
        domains == globalDomainList.domains
        matchFound == \E i \in 1..Len(domains) : PatternMatches(domains[i], host)
    IN  IF filterType = "disabled" \/ Len(domains) = 0 THEN TRUE
        ELSE IF filterType = "whitelist" THEN matchFound
        ELSE IF filterType = "blacklist" THEN ~matchFound
        ELSE TRUE

\* an empty pattern list is filtered like any other list
checkDomainNoEmptyTest(rule, globalDomainList, host) ==
    LET effectiveSettings == IF rule.domainList.type # "inherit" THEN rule.domainList
                             ELSE globalDomainList
        filterType == effectiveSettings.type
        domains == effectiveSettings.domains
        matchFound == \E i \in 1..Len(domains) : PatternMatches(domains[i], host)
    IN  IF filterType = "disabled" THEN TRUE
        ELSE IF filterType = "whitelist" THEN matchFound
        ELSE IF filterType = "blacklist" THEN ~matchFound
        ELSE TRUE

\* the try block around the whole loop: the first invalid pattern ends it
checkDomainStopsAtInvalid(rule, globalDomainList, host) ==
    LET effectiveSettings == IF rule.domainList.type # "inherit" THEN rule.domainList
                             ELSE globalDomainList
        filterType == effectiveSettings.type
        domains == effectiveSettings.domains
        Throws(i) == /\ domains[i] # <<>> /\ domains[i][1] = "/"
                     /\ domains[i][Len(domains[i])] = "/"
                     /\ ~NewRegExp(SubSeq(domains[i], 2, Len(domains[i]) - 1), FALSE).ok
        matchFound == \E i \in 1..Len(domains) :
                        /\ PatternMatches(domains[i], host)
                        /\ \A j \in 1..(i - 1) : ~Throws(j)
    IN  IF filterType = "disabled" \/ Len(domains) = 0 THEN TRUE
        ELSE IF filterType = "whitelist" THEN matchFound
        ELSE IF filterType = "blacklist" THEN ~matchFound
        ELSE TRUE

checkDomainForRule(rule, globalDomainList, host) ==
    LET effectiveSettings == IF rule.domainList.type # "inherit" THEN rule.domainList
                             ELSE globalDomainList
        filterType == effectiveSettings.type
        domains == effectiveSettings.domains
        matchFound == \E i \in 1..Len(domains) : PatternMatches(domains[i], host)
    IN  IF filterType = "disabled" \/ Len(domains) = 0 THEN TRUE
        ELSE IF filterType = "whitelist" THEN matchFound
        ELSE IF filterType = "blacklist" THEN ~matchFound
        ELSE TRUE

\* window.location.hostname of the page
pageDomain == <<"a", ".", "m">>

\* the loop that filters rulesToConsider, ended by the first rule that does
\* not compile
RECURSIVE ApplicableOfFatal(_, _)
ApplicableOfFatal(rules, cs) ==
    IF rules = <<>> THEN <<>>
    ELSE LET rule == Head(rules)
             rest == ApplicableOfFatal(Tail(rules), cs)
         IN  IF rule.id \in cs.disabledRuleIds THEN rest
             ELSE IF ~createRegExpForRule(rule).ok THEN <<>>
             ELSE IF checkDomainForRule(rule, cs.domainList, pageDomain)
             THEN <<Compiled(rule)>> \o rest
             ELSE rest

\* the loop that filters rulesToConsider into applicableRules
RECURSIVE ApplicableOf(_, _)
ApplicableOf(rules, cs) ==
    IF rules = <<>> THEN <<>>
    ELSE LET rule == Head(rules)
             rest == ApplicableOf(Tail(rules), cs)
         IN  IF rule.id \in cs.disabledRuleIds THEN rest
             ELSE IF checkDomainForRule(rule, cs.domainList, pageDomain)
                     /\ createRegExpForRule(rule).ok
             THEN <<Compiled(rule)>> \o rest
             ELSE rest

ApplicableRules(cs) == ApplicableOf(getActiveRules(cs), cs)

(***************************************************************************)
(* The document.  A world is the document with the pending mutation        *)
(* records and the isProcessing flag: what a synchronous pass reads and    *)
(* writes.  Node 1 is document.body; parent = 0 is parentNode === null.    *)
(***************************************************************************)
Body == 1

ElementNode(tag, parent, processed, title, origin) ==
    [kind |-> "element", tag |-> tag, value |-> <<>>, parent |-> parent,
     processed |-> processed, title |-> title, editable |-> FALSE,
     origin |-> origin, dataset |-> TRUE]

TextNode(value, parent, origin) ==
    [kind |-> "text", tag |-> "#text", value |-> value, parent |-> parent,
     processed |-> FALSE, title |-> <<>>, editable |-> FALSE, origin |-> origin,
     dataset |-> FALSE]

\* an element of a namespace other than HTML, SVG or MathML, as made by
\* document.createElementNS: a plain Element, whose dataset is undefined
\* an element with the contenteditable attribute
EditableElement(tag, parent, origin) ==
    [ElementNode(tag, parent, FALSE, <<>>, origin) EXCEPT !.editable = TRUE]

ForeignElement(tag, parent, origin) ==
    [ElementNode(tag, parent, FALSE, <<>>, origin) EXCEPT !.dataset = FALSE]

\* element.isContentEditable: the attribute of the node or of an ancestor
RECURSIVE isContentEditable(_, _)
isContentEditable(w, n) ==
    IF w.dom[n].editable THEN TRUE
    ELSE IF w.dom[n].parent = 0 THEN FALSE
    ELSE isContentEditable(w, w.dom[n].parent)

\* is node n in the subtree the observer watches (under document.body)
RECURSIVE InBody(_, _)
InBody(w, n) ==
    IF n = Body THEN TRUE
    ELSE IF w.dom[n].parent = 0 THEN FALSE
    ELSE InBody(w, w.dom[n].parent)

\* has node n an ancestor that is a replacement span
RECURSIVE InsideSpan(_, _)
InsideSpan(w, n) ==
    IF w.dom[n].parent = 0 THEN FALSE
    ELSE w.dom[w.dom[n].parent].processed \/ InsideSpan(w, w.dom[n].parent)

\* the text nodes below node n in document order (TreeWalker, SHOW_TEXT)
RECURSIVE TextsUnder(_, _)
RECURSIVE TextsOfList(_, _)
TextsUnder(w, n) ==
    IF w.dom[n].kind = "text" THEN <<n>> ELSE TextsOfList(w, w.kids[n])

TextsOfList(w, list) ==
    IF list = <<>> THEN <<>>
    ELSE TextsUnder(w, Head(list)) \o TextsOfList(w, Tail(list))

ExcludedTags == {"SCRIPT", "STYLE", "NOSCRIPT", "TEXTAREA", "INPUT"}

\* acceptNode of the TreeWalker: FILTER_ACCEPT or not
acceptNode(w, n, applicableRules) ==
    LET parent == w.dom[w.dom[n].parent]
    IN  IF \/ parent.tag \in ExcludedTags
           \/ isContentEditable(w, w.dom[n].parent)
           \/ parent.processed
        THEN FALSE
        ELSE \E i \in 1..Len(applicableRules) :
                TestFromStart(applicableRules[i].regex, w.dom[n].value)

\* acceptNode throws a TypeError: the parent passes the tag and
\* isContentEditable tests and parentNode.dataset is undefined
acceptNodeThrows(w, n) ==
    LET parent == w.dom[w.dom[n].parent]
    IN  /\ parent.tag \notin ExcludedTags
        /\ ~isContentEditable(w, w.dom[n].parent)
        /\ ~parent.dataset

RECURSIVE SelectAccepted(_, _, _)
SelectAccepted(w, list, applicableRules) ==
    IF list = <<>> THEN <<>>
    ELSE (IF acceptNode(w, Head(list), applicableRules) THEN <<Head(list)>> ELSE <<>>)
         \o SelectAccepted(w, Tail(list), applicableRules)

\* the nodes of a fragment are created below parent p; the result is the
\* world and the ids of the fragment's children
RECURSIVE AddPieces(_, _, _, _)
AddPieces(w, p, pieces, ids) ==
    IF pieces = <<>> THEN [w |-> w, ids |-> ids]
    ELSE LET piece == Head(pieces)
             id == Len(w.dom) + 1
             w1 == IF piece.kind = "text"
                   THEN [w EXCEPT !.dom = Append(w.dom, TextNode(piece.value, p, "replacer")),
                                  !.kids = Append(w.kids, <<>>)]
                   ELSE IF piece.value = <<>>
                   THEN [w EXCEPT !.dom = Append(w.dom,
                                      ElementNode("SPAN", p, TRUE, piece.title, "replacer")),
                                  !.kids = Append(w.kids, <<>>)]
                   ELSE [w EXCEPT !.dom = w.dom \o
                                      <<ElementNode("SPAN", p, TRUE, piece.title, "replacer"),
                                        TextNode(piece.value, id, "replacer")>>,
                                  !.kids = w.kids \o <<<<id + 1>>, <<>>>>]
         IN  Only({AddPieces(w2, p, Tail(pieces), Append(ids, id)) : w2 \in {w1}})

\* list with the element old replaced by the elements of new
RECURSIVE Splice(_, _, _)
Splice(list, old, new) ==
    IF list = <<>> THEN <<>>
    ELSE IF Head(list) = old THEN new \o Tail(list)
    ELSE <<Head(list)>> \o Splice(Tail(list), old, new)

\* the mutation record of a childList change, queued if an observer is
\* connected and the target is in the observed subtree
Observe(w, observing, target, added) ==
    IF observing /\ InBody(w, target)
    THEN [w EXCEPT !.records = Append(w.records, [target |-> target, added |-> added])]
    ELSE w

\* textNode.parentNode.replaceChild(fragment, textNode)
replaceChild(w, n, fragment, observing) ==
    LET p == w.dom[n].parent
    IN  Only({Observe([r.w EXCEPT !.dom[n].parent = 0,
                                  !.kids[p] = Splice(r.w.kids[p], n, r.ids)],
                      observing, p, r.ids) :
              r \in {AddPieces(w, p, fragment, <<>>)}})

\* the title of the parent if it is a replacement span
ParentTitle(w, n) ==
    LET p == w.dom[n].parent
    IN  IF p # 0 /\ w.dom[p].tag = "SPAN" /\ w.dom[p].processed THEN w.dom[p].title
        ELSE <<>>

\* history: text node n was replaced by a fragment
RewriteEvent(w, n, by, fragment) ==
    [ev |-> "rewrite", node |-> n, by |-> by, scanned |-> TRUE,
     rules |-> {fragment[i].rule :
                    i \in {j \in 1..Len(fragment) : fragment[j].kind = "span"}},
     parentProcessed |-> w.dom[w.dom[n].parent].processed,
     insideSpan |-> InsideSpan(w, n)]

\* history: an uncaught error left the pass while it was at node n, in the
\* engine ("throw") or in the filter of the TreeWalker ("filterThrow")
ThrowEvent(ev, n, by) ==
    [ev |-> ev, node |-> n, by |-> by, scanned |-> FALSE, rules |-> {},
     parentProcessed |-> FALSE, insideSpan |-> FALSE]

\* the pass is left by an uncaught error
Throw(w, ev, n, by) ==
    [w EXCEPT !.thrown = TRUE, !.log = Append(w.log, ThrowEvent(ev, n, by))]

\* parentNode.dataset.replacerProcessed is read for a parent named SPAN
ParentTestThrows(w, n) ==
    LET p == w.dom[n].parent
    IN  p # 0 /\ w.dom[p].tag = "SPAN" /\ ~w.dom[p].dataset

\* the engine without the test of textNode.parentNode before the swap:
\* replaceChild is called on null
processNodeUnguarded(w, n, applicableRules, disabled, observing, by) ==
    IF ParentTestThrows(w, n) THEN Throw(w, "throw", n, by)
    ELSE Only({IF st.hasFragment /\ w.dom[n].parent = 0
               THEN Throw(w, "throw", n, by)
               ELSE IF st.hasFragment
               THEN [replaceChild(w, n, st.fragment, observing)
                        EXCEPT !.log = Append(w.log, RewriteEvent(w, n, by, st.fragment))]
               ELSE w :
               st \in {RunScan(ScanStart(w.dom[n].value, applicableRules, disabled,
                                         ParentTitle(w, n)))}})

\* the swap without the test of fragment: a node without a match is replaced
\* by an empty fragment
SwapNodeAlways(w, n, st, observing, by) ==
    IF w.dom[n].parent # 0
    THEN [replaceChild(w, n, st.fragment, observing)
            EXCEPT !.log = Append(w.log, RewriteEvent(w, n, by, st.fragment))]
    ELSE w

\* the swap after the scan of node n has ended in state st
SwapNode(w, n, st, observing, by) ==
    IF st.hasFragment /\ w.dom[n].parent # 0
    THEN [replaceChild(w, n, st.fragment, observing)
            EXCEPT !.log = Append(w.log, RewriteEvent(w, n, by, st.fragment))]
    ELSE w

processNodeWithApplicableRules(w, n, applicableRules, disabled, observing, by) ==
    IF ParentTestThrows(w, n) THEN Throw(w, "throw", n, by)
    ELSE Only({SwapNode(w, n, st, observing, by) :
               st \in {RunScan(ScanStart(w.dom[n].value, applicableRules, disabled,
                                         ParentTitle(w, n)))}})

RECURSIVE ProcessAll(_, _, _, _, _, _)
ProcessAll(w, nodes, applicableRules, disabled, observing, by) ==
    IF nodes = <<>> \/ w.thrown THEN w
    ELSE Only({ProcessAll(w1, Tail(nodes), applicableRules, disabled, observing, by) :
               w1 \in {processNodeWithApplicableRules(w, Head(nodes), applicableRules,
                                                      disabled, observing, by)}})

\* does a call of walkTheDOM get as far as the TreeWalker
WalkScans(w, cs) ==
    /\ cs.isEnabled /\ ~w.isProcessing
    /\ getActiveRules(cs) # <<>>
    /\ ApplicableRules(cs) # <<>>

\* history: walkTheDOM was called on node n
WalkEvent(w, cs, n, by) ==
    [ev |-> "walk", node |-> n, by |-> by, scanned |-> WalkScans(w, cs),
     rules |-> {}, parentProcessed |-> FALSE, insideSpan |-> FALSE]

walkTheDOM(w, cs, startNode, observing, by) ==
    LET w0 == [w EXCEPT !.log = Append(w.log, WalkEvent(w, cs, startNode, by))]
    IN  IF ~cs.isEnabled \/ w.isProcessing THEN w0
        ELSE IF getActiveRules(cs) = <<>> THEN w0
        ELSE IF ApplicableRules(cs) = <<>> THEN [w0 EXCEPT !.isProcessing = FALSE]
        ELSE LET applicableRules == ApplicableRules(cs)
                 texts == TextsUnder(w0, startNode)
                 throwing == {k \in 1..Len(texts) : acceptNodeThrows(w0, texts[k])}
                 nodesToProcess == SelectAccepted(w0, texts, applicableRules)
             IN  IF throwing # {}
                 THEN Throw([w0 EXCEPT !.isProcessing = TRUE], "filterThrow",
                            texts[CHOOSE k \in throwing : \A j \in throwing : k <= j],
                            by)
                 ELSE Only({IF w1.thrown THEN w1 ELSE [w1 EXCEPT !.isProcessing = FALSE] :
                            w1 \in {ProcessAll([w0 EXCEPT !.isProcessing = TRUE],
                                               nodesToProcess, applicableRules,
                                               cs.disabledRuleIds, observing, by)}})

(***************************************************************************)
(* Settings and storage                                                    *)
(***************************************************************************)
DisabledList == [type |-> "disabled", domains |-> <<>>]

\* the blacklist the background script installs: docs.google.com and
\* /.*\.github\.io/
InstalledDomainList ==
    [type |-> "blacklist",
     domains |-> << <<"d", "o", "c", "s", ".", "g", "o", "o", "g", "l", "e", ".",
                      "c", "o", "m">>,
                    <<"/", ".", "*", "\\", ".", "g", "i", "t", "h", "u", "b",
                      "\\", ".", "i", "o", "/">> >>]

\* let currentSettings = {...} of the content script
InitialSettings ==
    [isLicensed |-> FALSE, isEnabled |-> TRUE, ruleBundles |-> <<>>,
     activeBundleId |-> NullId, domainList |-> DisabledList,
     disabledRuleIds |-> {}]

\* a user bundle whose second rule matches in front of its first
OrderBundle ==
    Bundle("bundle_order", FALSE, "user", FALSE, <<fallbackDefaultRules[3], RuleA>>)

StoreOf(isLicensed, isEnabled, ruleBundles, activeBundleId) ==
    [sync |-> [isLicensed |-> isLicensed],
     local |-> [isEnabled |-> isEnabled, ruleBundles |-> ruleBundles,
                activeBundleId |-> activeBundleId,
                domainList |-> InstalledDomainList, disabledRuleIds |-> {}]]

StoreInstalled == StoreOf(FALSE, TRUE, <<BuckeyeBundle>>, BuckeyeBundle.id)
StoreLicensed == StoreOf(TRUE, TRUE, <<BuckeyeBundle, OrderBundle>>, OrderBundle.id)
StoreOff == StoreOf(FALSE, FALSE, <<BuckeyeBundle>>, BuckeyeBundle.id)

\* the installed settings with the rule m -> x switched off in the options page
StoreDisabled == [StoreInstalled EXCEPT !.local.disabledRuleIds = {"default_m"}]

StoreConfigs == {StoreInstalled, StoreLicensed, StoreOff, StoreDisabled}

\* assignments that keep the license flag of the previous load
LoadedSettingsKeepLicense(syncResult, localResult) ==
    [isLicensed |-> currentSettings.isLicensed,
     isEnabled |-> localResult.isEnabled,
     ruleBundles |-> localResult.ruleBundles,
     activeBundleId |-> localResult.activeBundleId,
     domainList |-> localResult.domainList,
     disabledRuleIds |-> localResult.disabledRuleIds]

\* the assignments of initialize after both reads
LoadedSettings(syncResult, localResult) ==
    [isLicensed |-> syncResult.isLicensed,
     isEnabled |-> localResult.isEnabled,
     ruleBundles |-> localResult.ruleBundles,
     activeBundleId |->
        IF localResult.activeBundleId # NullId THEN localResult.activeBundleId
        ELSE IF localResult.ruleBundles # <<>> THEN localResult.ruleBundles[1].id
        ELSE NullId,
     domainList |-> localResult.domainList,
     disabledRuleIds |-> localResult.disabledRuleIds]

(***************************************************************************)
(* The content script on a page: initialize, the observer callback, the    *)
(* animation-frame callbacks, and the page's own scripts.                  *)
(***************************************************************************)
\* the text of the page as loaded, and the text its scripts add
LoadedText == <<"a", "m">>
PageTexts == {<<"m">>}

World ==
    [dom |-> dom, kids |-> kids, records |-> records,
     isProcessing |-> isProcessing, log |-> <<>>, thrown |-> FALSE]

SetWorld(w) ==
    /\ dom' = w.dom
    /\ kids' = w.kids
    /\ records' = w.records
    /\ isProcessing' = w.isProcessing
    /\ trail' = w.log

\* observer callbacks are microtasks: a queued record is delivered before any
\* other task runs
TaskMayRun == records = <<>>

WalkFrame == [kind |-> "walk", mutations |-> <<>>, rules |-> <<>>]
\* a frame that uses the rule set computed when the script started
BatchFrameCached(mutationsList, applicableRules) ==
    [kind |-> "batch", mutations |-> mutationsList,
     rules |-> ApplicableRules(InitialSettings)]

BatchFrame(mutationsList, applicableRules) ==
    [kind |-> "batch", mutations |-> mutationsList, rules |-> applicableRules]

InitialDom(text) ==
    <<ElementNode("BODY", 0, FALSE, <<>>, "page"),
      ElementNode("DIV", Body, FALSE, <<>>, "page"),
      TextNode(text, 2, "page")>>

InitialKids == << <<2>>, <<3>>, <<>> >>

\* the script has run: initialize() is suspended at its first await
Init ==
    /\ scan = ScanIdle
    /\ scanLog = <<>>
    /\ sel = SelIdle
    /\ store \in StoreConfigs
    /\ currentSettings = InitialSettings
    /\ isProcessing = FALSE
    /\ observer = FALSE
    /\ records = <<>>
    /\ rafQueue = <<>>
    /\ inits = <<[pc |-> "sync", syncResult |-> [isLicensed |-> FALSE]]>>
    /\ dom = InitialDom(LoadedText)
    /\ kids = InitialKids
    /\ pageOps = 0
    /\ trail = <<>>

\* the elements of the document the page's scripts append text to:
\* document.body, the replacement spans, the elements of other namespaces, and the
\* excluded and content-editable elements
TextParents ==
    {n \in 1..Len(dom) :
        /\ dom[n].kind = "element" /\ InBody(World, n)
        /\ \/ n = Body \/ dom[n].processed \/ ~dom[n].dataset
           \/ dom[n].tag \in ExcludedTags \/ dom[n].editable}

\* parent.appendChild(node) for a node with the given children
appendChild(w, p, nodes, childLists, observing) ==
    LET id == Len(w.dom) + 1
        w1 == [w EXCEPT !.dom = w.dom \o nodes,
                        !.kids = [w.kids EXCEPT ![p] = Append(w.kids[p], id)]
                                    \o childLists]
    IN  Observe(w1, observing, p, <<id>>)

\* a script of the page appends a text node to an element
PageAddText ==
    /\ TaskMayRun
    /\ pageOps < MaxEvents
    /\ \E p \in TextParents, text \in PageTexts :
        SetWorld(appendChild(World, p, <<TextNode(text, p, "page")>>, << <<>> >>,
                             observer))
    /\ pageOps' = pageOps + 1
    /\ UNCHANGED <<engineVars, sel, store, currentSettings, observer, rafQueue, inits>>

\* a script of the page appends an element with a text child to an element
PageAddElement ==
    /\ TaskMayRun
    /\ pageOps < MaxEvents
    /\ \E p \in {Body}, text \in PageTexts :
      \E element \in {ElementNode("DIV", p, FALSE, <<>>, "page"),
                       ForeignElement("SPAN", p, "page"),
                       ElementNode("SCRIPT", p, FALSE, <<>>, "page"),
                       EditableElement("DIV", p, "page")} :
        LET id == Len(dom) + 1
        IN  SetWorld(appendChild(World, p,
                                 <<element,
                                   TextNode(text, id, "page")>>,
                                 << <<id + 1>>, <<>> >>, observer))
    /\ pageOps' = pageOps + 1
    /\ UNCHANGED <<engineVars, sel, store, currentSettings, observer, rafQueue, inits>>

\* the text nodes in the document that a script of the page has added
PageAddedTexts ==
    {n \in 1..Len(dom) :
        /\ dom[n].kind = "text" /\ dom[n].origin = "page"
        /\ n > Len(InitialKids) /\ dom[n].parent # 0 /\ InBody(World, n)}

\* parent.removeChild(node)
removeChild(w, n, observing) ==
    LET p == w.dom[n].parent
        w1 == [w EXCEPT !.dom[n].parent = 0,
                        !.kids[p] = Splice(w.kids[p], n, <<>>)]
    IN  Observe(w1, observing, p, <<>>)

\* a script of the page removes a text node it has added
PageRemoveText ==
    /\ TaskMayRun
    /\ pageOps < MaxEvents
    /\ \E n \in PageAddedTexts : SetWorld(removeChild(World, n, observer))
    /\ pageOps' = pageOps + 1
    /\ UNCHANGED <<engineVars, sel, store, currentSettings, observer, rafQueue, inits>>

\* the options page, the popup or the background script writes the settings
StoreChange ==
    /\ TaskMayRun
    /\ pageOps < MaxEvents
    /\ \E st \in StoreConfigs \ {store} : store' = st
    /\ pageOps' = pageOps + 1
    /\ trail' = <<>>
    /\ UNCHANGED <<engineVars, sel, currentSettings, isProcessing, observer,
                   records, rafQueue, inits, dom, kids>>

\* the settingsUpdated message: initialize() runs up to its first await
InitCall ==
    /\ TaskMayRun
    /\ pageOps < MaxEvents
    /\ observer' = FALSE
    /\ records' = <<>>
    /\ inits' = Append(inits, [pc |-> "sync", syncResult |-> [isLicensed |-> FALSE]])
    /\ pageOps' = pageOps + 1
    /\ trail' = <<>>
    /\ UNCHANGED <<engineVars, sel, store, currentSettings, isProcessing,
                   rafQueue, dom, kids>>

\* chrome.storage.sync.get resolves; chrome.storage.local.get is called
InitSyncRead ==
    /\ TaskMayRun
    /\ \E i \in 1..Len(inits) :
        /\ inits[i].pc = "sync"
        /\ inits' = [inits EXCEPT ![i] = [pc |-> "local", syncResult |-> store.sync]]
    /\ trail' = <<>>
    /\ UNCHANGED <<engineVars, sel, store, currentSettings, isProcessing,
                   observer, records, rafQueue, dom, kids, pageOps>>

Remove(list, i) == SubSeq(list, 1, i - 1) \o SubSeq(list, i + 1, Len(list))

\* chrome.storage.local.get resolves: the settings are assigned and the
\* finally block runs
InitLocalRead ==
    /\ TaskMayRun
    /\ \E i \in 1..Len(inits) :
        /\ inits[i].pc = "local"
        /\ inits' = Remove(inits, i)
        /\ currentSettings' = LoadedSettings(inits[i].syncResult, store.local)
    /\ IF currentSettings'.isEnabled
       THEN /\ rafQueue' = Append(rafQueue, WalkFrame)
            /\ observer' = TRUE
       ELSE /\ rafQueue' = rafQueue
            /\ observer' = FALSE
    /\ records' = <<>>
    /\ trail' = <<>>
    /\ UNCHANGED <<engineVars, sel, store, isProcessing, dom, kids, pageOps>>

\* a catch block that leaves the extension switched off
SafeDefaultsOff ==
    [isLicensed |-> FALSE, isEnabled |-> FALSE, ruleBundles |-> <<>>,
     activeBundleId |-> NullId, domainList |-> DisabledList,
     disabledRuleIds |-> {}]

\* the settings the catch block of initialize assigns
SafeDefaults ==
    [isLicensed |-> FALSE, isEnabled |-> TRUE, ruleBundles |-> <<>>,
     activeBundleId |-> NullId, domainList |-> DisabledList,
     disabledRuleIds |-> {}]

\* chrome.storage.sync.get or chrome.storage.local.get rejects: the catch
\* block assigns the defaults and the finally block runs
InitReadFails ==
    /\ TaskMayRun
    /\ \E i \in 1..Len(inits) : inits' = Remove(inits, i)
    /\ currentSettings' = SafeDefaults
    /\ IF currentSettings'.isEnabled
       THEN /\ rafQueue' = Append(rafQueue, WalkFrame)
            /\ observer' = TRUE
       ELSE /\ rafQueue' = rafQueue
            /\ observer' = FALSE
    /\ records' = <<>>
    /\ trail' = <<>>
    /\ UNCHANGED <<engineVars, sel, store, isProcessing, dom, kids, pageOps>>

\* the MutationObserver callback with the pending records
ObserverCallback ==
    /\ observer
    /\ records # <<>>
    /\ records' = <<>>
    /\ rafQueue' =
        IF ~currentSettings.isEnabled \/ isProcessing THEN rafQueue
        ELSE IF ApplicableRules(currentSettings) = <<>> THEN rafQueue
        ELSE Append(rafQueue, BatchFrame(records, ApplicableRules(currentSettings)))
    /\ trail' = <<>>
    /\ UNCHANGED <<engineVars, sel, store, currentSettings, isProcessing,
                   observer, inits, dom, kids, pageOps>>

\* the frame callback of initialize: walkTheDOM(document.body)
FrameWalk ==
    /\ TaskMayRun
    /\ rafQueue # <<>>
    /\ Head(rafQueue).kind = "walk"
    /\ rafQueue' = Tail(rafQueue)
    /\ \E w \in {walkTheDOM(World, currentSettings, Body, observer, "walk")} :
        SetWorld(w)
    /\ UNCHANGED <<engineVars, sel, store, currentSettings, observer, inits, pageOps>>

RECURSIVE AddedNodes(_)
AddedNodes(mutationsList) ==
    IF mutationsList = <<>> THEN <<>>
    ELSE Head(mutationsList).added \o AddedNodes(Tail(mutationsList))

\* history: the engine was run on the added text node n
TextEvent(n) ==
    [ev |-> "text", node |-> n, by |-> "batch", scanned |-> TRUE, rules |-> {},
     parentProcessed |-> FALSE, insideSpan |-> FALSE]

\* the forEach over the added nodes of the batch
RECURSIVE HandleAdded(_, _, _, _, _)
HandleAdded(w, nodes, applicableRulesForMutations, cs, observing) ==
    IF nodes = <<>> \/ w.thrown THEN w
    ELSE LET n == Head(nodes)
         IN  Only({HandleAdded(w1, Tail(nodes), applicableRulesForMutations, cs,
                               observing) :
                   w1 \in {IF w.dom[n].kind = "element"
                           THEN walkTheDOM(w, cs, n, observing, "batch")
                           ELSE processNodeWithApplicableRules(
                                    [w EXCEPT !.log = Append(w.log, TextEvent(n))], n,
                                    applicableRulesForMutations, cs.disabledRuleIds,
                                    observing, "batch")}})

\* the frame callback of the observer
RunBatch(w, batch, cs, observing) ==
    Only({IF w1.thrown THEN w1 ELSE [w1 EXCEPT !.isProcessing = FALSE] :
          w1 \in {HandleAdded([w EXCEPT !.isProcessing = TRUE],
                              AddedNodes(batch.mutations), batch.rules, cs,
                              observing)}})

FrameBatch ==
    /\ TaskMayRun
    /\ rafQueue # <<>>
    /\ Head(rafQueue).kind = "batch"
    /\ rafQueue' = Tail(rafQueue)
    /\ \E w \in {RunBatch(World, Head(rafQueue), currentSettings, observer)} :
        SetWorld(w)
    /\ UNCHANGED <<engineVars, sel, store, currentSettings, observer, inits, pageOps>>

Next ==
    \/ PageAddText
    \/ PageAddElement
    \/ PageRemoveText
    \/ StoreChange
    \/ InitCall
    \/ InitSyncRead
    \/ InitLocalRead
    \/ InitReadFails
    \/ ObserverCallback
    \/ FrameWalk
    \/ FrameBatch

Spec == Init /\ [][Next]_vars

(***************************************************************************)
(* checkDomainForRule on its own: hosts, rule filters and global filters   *)
(***************************************************************************)
ExampleCom == <<"e", "x", "a", "m", "p", "l", "e", ".", "c", "o", "m">>
HostMTn == <<"m", ".", "t", "n">>
Hosts == {pageDomain, ExampleCom, HostMTn}

\* patterns of a domain list: two literal hosts, one of them in upper case,
\* the regular expressions /.*\.m/ and /m/, and /*/, which does not compile
PatternPool ==
    {ExampleCom,
     <<"M", ".", "T", "N">>,
     <<"/", ".", "*", "\\", ".", "m", "/">>,
     <<"/", "m", "/">>,
     <<"/", "*", "/">>}

FilterTypes == {"disabled", "whitelist", "blacklist", "inherit"}

DomainList(type, domains) == [type |-> type, domains |-> domains]

RuleFilters ==
    {DomainList(t, d) : t \in FilterTypes, d \in ListsUpTo(PatternPool, 1)}

GlobalFilters ==
    {DomainList(t, d) : t \in FilterTypes \ {"inherit"},
                        d \in ListsUpTo(PatternPool, MaxPatterns)}

InitDomain ==
    /\ sel = SelIdle
    /\ scan = ScanIdle
    /\ scanLog = <<>>
    /\ PageIdle

\* checkDomainForRule is entered on some page
DomainCall ==
    /\ sel.pc = "idle"
    /\ \E own \in RuleFilters, globalDomainList \in GlobalFilters, host \in Hosts :
        sel' = [pc |-> "called", rule |-> [RuleA EXCEPT !.domainList = own],
                globalDomainList |-> globalDomainList, host |-> host]
    /\ UNCHANGED <<engineVars, pageVars>>

\* checkDomainForRule returns
DomainReturn ==
    /\ sel.pc = "called"
    /\ sel' = [pc |-> "done", rule |-> sel.rule,
               globalDomainList |-> sel.globalDomainList, host |-> sel.host,
               result |-> checkDomainForRule(sel.rule, sel.globalDomainList, sel.host)]
    /\ UNCHANGED <<engineVars, pageVars>>

NextDomain == DomainCall \/ DomainReturn

SpecDomain == InitDomain /\ [][NextDomain]_vars

(***************************************************************************)
(* walkTheDOM run twice on the same subtree with the same settings         *)
(***************************************************************************)
WalkSettings(rules) ==
    [isLicensed |-> TRUE, isEnabled |-> TRUE,
     ruleBundles |-> <<Bundle("bundle_input", FALSE, "user", FALSE, rules)>>,
     activeBundleId |-> "bundle_input", domainList |-> DisabledList,
     disabledRuleIds |-> {}]

\* a rule without find text, and a regular expression that does not compile
RuleNoFind == Rule("rule_nofind", <<>>, <<"y">>, FALSE, TRUE, FALSE)
RuleBadRegex == Rule("rule_badregex", <<"*">>, <<"y">>, TRUE, TRUE, FALSE)

WalkRules == EngineRules \cup {RuleNoFind, RuleBadRegex}

InitWalk ==
    /\ scan = ScanIdle
    /\ scanLog = <<>>
    /\ sel = SelIdle
    /\ store = StoreInstalled
    /\ currentSettings = InitialSettings
    /\ isProcessing = FALSE
    /\ observer = FALSE
    /\ records = <<>>
    /\ rafQueue = <<>>
    /\ inits = <<>>
    /\ dom = InitialDom(<<>>)
    /\ kids = InitialKids
    /\ pageOps = 0
    /\ trail = <<>>

\* a page and settings are given and walkTheDOM(document.body) is due twice
WalkCall ==
    /\ rafQueue = <<>> /\ trail = <<>>
    /\ \E text \in TextsUpTo(EngineChars, MaxLen),
          rules \in ListsUpTo(WalkRules, MaxRules) :
        /\ dom' = InitialDom(text)
        /\ currentSettings' = WalkSettings(rules)
    /\ rafQueue' = <<WalkFrame, WalkFrame>>
    /\ UNCHANGED <<engineVars, sel, store, isProcessing, observer, records,
                   inits, kids, pageOps, trail>>

NextWalk == WalkCall \/ FrameWalk

SpecWalk == InitWalk /\ [][NextWalk]_vars

(***************************************************************************)
(* Properties of the scanner and the mutation watcher                      *)
(***************************************************************************)
TrailIds == 1..Len(trail)

\* some text below node n is still one the scanner would accept
StillAcceptable(n) ==
    \E k \in 1..Len(TextsUnder(World, n)) :
        acceptNode(World, TextsUnder(World, n)[k], ApplicableRules(currentSettings))

\* C1: while the extension is enabled and a rule is applicable, every node the
\* page added under document.body is processed by the watcher batch that
\* handles it: walkTheDOM scans the subtree of an added element (no text the
\* scanner accepts is left below an element the batch did not scan), and the
\* engine runs on an added text node.
C1_AddedNodesProcessed ==
    (currentSettings.isEnabled /\ ApplicableRules(currentSettings) # <<>>) =>
        \A i \in TrailIds :
            (/\ trail[i].by = "batch"
             /\ trail[i].ev \in {"walk", "text"}
             /\ dom[trail[i].node].origin = "page")
                => (trail[i].scanned \/ ~StillAcceptable(trail[i].node))

\* C2: no animation-frame batch is ever scheduled for mutation records whose
\* added nodes the content script itself inserted.
C2_NoSelfTrigger ==
    \A i \in 1..Len(rafQueue) :
        \A j \in 1..Len(rafQueue[i].mutations) :
            \A k \in 1..Len(rafQueue[i].mutations[j].added) :
                dom[rafQueue[i].mutations[j].added[k]].origin # "replacer"

\* C3: no pass (walk or watcher batch) rewrites a text node that is a
\* descendant of a replacement span.
C3_SpanTextNeverRewritten ==
    \A i \in TrailIds : trail[i].ev = "rewrite" => ~trail[i].insideSpan

\* C4: a second walkTheDOM over a subtree walkTheDOM has already rewritten,
\* with the same settings, replaces no node.
C4_SecondWalkChangesNothing ==
    (rafQueue = <<>> /\ trail # <<>>) =>
        \A i \in TrailIds : trail[i].ev # "rewrite"

(***************************************************************************)
(* Properties of initialize                                                *)
(***************************************************************************)
\* the frame callbacks of the given kind that are scheduled
FramesOf(kind) == {i \in 1..Len(rafQueue) : rafQueue[i].kind = kind}

\* C11: when a storage read of initialize fails, the settings become the safe
\* defaults (enabled, unlicensed, no bundles), the observer is connected, a
\* walk of document.body is scheduled, and getActiveRules yields the
\* hardcoded fallback rules, which are not empty.
C11_FailureFallsBack ==
    [][InitReadFails =>
        /\ currentSettings'.isEnabled
        /\ ~currentSettings'.isLicensed
        /\ currentSettings'.ruleBundles = <<>>
        /\ observer'
        /\ Len(rafQueue') = Len(rafQueue) + 1
        /\ rafQueue'[Len(rafQueue')].kind = "walk"
        /\ getActiveRules(currentSettings') = fallbackDefaultRules
        /\ getActiveRules(currentSettings') # <<>>]_vars

\* a read has failed and the walk scheduled after it has rewritten the page
\* text with a hardcoded fallback rule
C11_Witness ==
    /\ observer
    /\ currentSettings.ruleBundles = <<>>
    /\ \E i \in TrailIds : trail[i].ev = "rewrite" /\ trail[i].by = "walk"

\* C12: whenever a text node is rewritten currentSettings.isEnabled is true:
\* after a reload has switched the extension off no pass, not even a batch
\* scheduled before the reload, rewrites a node, and no observer is connected.
C12_KillSwitch ==
    /\ \A i \in TrailIds : trail[i].ev = "rewrite" => currentSettings.isEnabled
    /\ ~currentSettings.isEnabled => ~observer

\* the values of the local namespace are the current settings after the step
FreshLocal ==
    /\ currentSettings'.isEnabled = store.local.isEnabled
    /\ currentSettings'.ruleBundles = store.local.ruleBundles
    /\ store.local.activeBundleId # NullId
        => currentSettings'.activeBundleId = store.local.activeBundleId
    /\ currentSettings'.domainList = store.local.domainList
    /\ currentSettings'.disabledRuleIds = store.local.disabledRuleIds

\* the license flag after the step is the one a pending initialize has read
FreshSync ==
    \E i \in 1..Len(inits) :
        /\ inits[i].pc = "local"
        /\ currentSettings'.isLicensed = inits[i].syncResult.isLicensed

\* C13: a settingsUpdated message starts an initialize; that initialize reads
\* the sync namespace and then the local namespace, and when the second read
\* returns currentSettings holds the values read and, if enabled, a walk of
\* document.body is scheduled.
C13_ReloadReapplies ==
    [][/\ InitCall =>
            /\ Len(inits') = Len(inits) + 1
            /\ inits'[Len(inits')].pc = "sync"
       /\ InitSyncRead =>
            \E i \in 1..Len(inits) :
                /\ inits[i].pc = "sync"
                /\ inits'[i].pc = "local"
                /\ inits'[i].syncResult = store.sync
       /\ InitLocalRead =>
            /\ FreshLocal
            /\ FreshSync
            /\ store.local.isEnabled =>
                /\ Len(rafQueue') = Len(rafQueue) + 1
                /\ rafQueue'[Len(rafQueue')].kind = "walk"]_vars

\* the first initialize and the one started by a message have both loaded the
\* stored settings and scheduled their walks
C13_Witness ==
    /\ inits = <<>>
    /\ Cardinality(FramesOf("walk")) = 2
    /\ currentSettings.ruleBundles = store.local.ruleBundles
    /\ currentSettings.isLicensed = store.sync.isLicensed

(***************************************************************************)
(* Properties of the watcher's scheduling                                  *)
(***************************************************************************)
\* C14: observer callbacks that arrive before the next animation frame are
\* coalesced: at most one watcher batch is scheduled at any time.
C14_OneBatchScheduled == Cardinality(FramesOf("batch")) <= 1

\* C15: the rule set of every watcher batch is computed, when the batch is
\* observed, from the settings current at that moment (rule selection,
\* disabled ids, domain filter, compilation); a batch observed after a reload
\* carries the rules of the reloaded settings.
C15_BatchRulesRecomputed ==
    [][(/\ Len(rafQueue') = Len(rafQueue) + 1
        /\ rafQueue'[Len(rafQueue')].kind = "batch")
        => /\ rafQueue'[Len(rafQueue')].rules = ApplicableRules(currentSettings)
           /\ currentSettings' = currentSettings]_vars

\* a node was rewritten under the licensed bundle (a -> z), the settings were
\* reloaded to the default bundle, and a batch observed afterwards is
\* scheduled with the rules of the default bundle
C15_Witness ==
    /\ currentSettings.activeBundleId = BuckeyeBundle.id
    /\ \E n \in 1..Len(dom) : dom[n].value = <<"z">>
    /\ \E i \in FramesOf("batch") :
        rafQueue[i].rules = ApplicableRules(currentSettings)

\* C16: an error raised while the engine rewrites one node does not end the
\* pass: the pass runs to its end and resets isProcessing.
C16_ErrorIsolated ==
    \A i \in TrailIds : trail[i].ev = "throw" => ~isProcessing

(***************************************************************************)
(* Properties of the swap                                                  *)
(***************************************************************************)
\* the rules the pass at the head of the frame queue works with
PassRules ==
    IF rafQueue # <<>> /\ Head(rafQueue).kind = "batch" THEN Head(rafQueue).rules
    ELSE ApplicableRules(currentSettings)

\* some rule of the pass that is not disabled matches the text
SomeRuleMatches(text) ==
    \E k \in 1..Len(PassRules) :
        /\ PassRules[k].rule.id \notin currentSettings.disabledRuleIds
        /\ TestFromStart(PassRules[k].regex, text)

\* C17: a pass swaps a text node for a fragment only if a rule matched its
\* text and the node had a parent; for a node that was detached before the
\* pass the engine raises no error and leaves the node as it was, and a pass
\* that swaps no node changes nothing in the document.
C17_SwapOnlyAttached ==
    [][/\ \A i \in 1..Len(trail') :
            /\ trail'[i].ev = "rewrite" =>
                /\ dom[trail'[i].node].parent # 0
                /\ SomeRuleMatches(dom[trail'[i].node].value)
            /\ (trail'[i].ev = "text" /\ dom[trail'[i].node].parent = 0) =>
                /\ dom'[trail'[i].node] = dom[trail'[i].node]
                /\ \A j \in 1..Len(trail') :
                    trail'[j].node = trail'[i].node
                        => trail'[j].ev \notin {"rewrite", "throw"}
       /\ (trail' # <<>> /\ \A i \in 1..Len(trail') : trail'[i].ev # "rewrite")
            => dom' = dom /\ kids' = kids]_vars

\* a batch has run the engine on a text node 'm' that the page had removed
\* before the frame: the node is as it was and nothing was swapped
C17_Witness ==
    \E i \in TrailIds :
        /\ trail[i].ev = "text"
        /\ dom[trail[i].node].parent = 0
        /\ dom[trail[i].node].value = <<"m">>
        /\ \A j \in TrailIds : trail[j].ev \notin {"rewrite", "throw"}
        /\ Cardinality({n \in 1..Len(dom) : dom[n].processed}) <= 1

(***************************************************************************)
(* Properties of the domain filter                                         *)
(***************************************************************************)
EqualIgnoringCase(a, b) ==
    Len(a) = Len(b) /\ \A i \in 1..Len(a) : Lower(a[i]) = Lower(b[i])

\* a pattern wrapped in slashes is a regular expression, searched for in the
\* host; any other pattern is a literal host
IsRegexForm(pattern) ==
    pattern # <<>> /\ pattern[1] = "/" /\ pattern[Len(pattern)] = "/"

MatchesHost(pattern, host) ==
    IF IsRegexForm(pattern)
    THEN LET re == NewRegExp(SubSeq(pattern, 2, Len(pattern) - 1), FALSE)
         IN  re.ok /\ Exec(re, host, 0).found
    ELSE EqualIgnoringCase(pattern, host)

SomeMatches(filter, host) ==
    \E i \in 1..Len(filter.domains) : MatchesHost(filter.domains[i], host)

\* what a filter decides on its own
Decides(filter, host) ==
    IF filter.domains = <<>> THEN TRUE
    ELSE IF filter.type = "whitelist" THEN SomeMatches(filter, host)
    ELSE IF filter.type = "blacklist" THEN ~SomeMatches(filter, host)
    ELSE TRUE

OwnFilter == sel.rule.domainList

\* the filter in force for the call: the rule's own unless it inherits
FilterInForce ==
    IF OwnFilter.type # "inherit" THEN OwnFilter ELSE sel.globalDomainList

DomainDone == sel.pc = "done"

\* C18: with a non-empty pattern list, mode whitelist makes the rule active
\* iff some pattern matches the hostname and mode blacklist iff none does; a
\* literal pattern matches iff it equals the hostname ignoring case.
C18_FilterModes ==
    (DomainDone /\ FilterInForce.domains # <<>>) =>
        /\ FilterInForce.type = "whitelist"
            => (sel.result <=> SomeMatches(FilterInForce, sel.host))
        /\ FilterInForce.type = "blacklist"
            => (sel.result <=> ~SomeMatches(FilterInForce, sel.host))

\* a whitelist with the literal M.TN makes the rule active on host m.tn
C18_Witness ==
    /\ DomainDone
    /\ OwnFilter = DomainList("whitelist", << <<"M", ".", "T", "N">> >>)
    /\ sel.host = HostMTn
    /\ sel.result

\* C19: a rule whose own mode is not inherit is decided by its own filter
\* alone; a rule with mode inherit is decided by the mode and the patterns of
\* the global filter: with the global blacklist [example.com] it is inactive
\* on example.com and active on every other host.
C19_EffectiveFilter ==
    DomainDone =>
        /\ OwnFilter.type # "inherit" => sel.result = Decides(OwnFilter, sel.host)
        /\ OwnFilter.type = "inherit"
            => sel.result = Decides(sel.globalDomainList, sel.host)
        /\ (/\ OwnFilter.type = "inherit"
            /\ sel.globalDomainList = DomainList("blacklist", <<ExampleCom>>))
            => (sel.result <=> sel.host # ExampleCom)

\* an inheriting rule under the global blacklist [example.com] is inactive on
\* example.com
C19_Witness ==
    /\ DomainDone
    /\ OwnFilter.type = "inherit"
    /\ sel.globalDomainList = DomainList("blacklist", <<ExampleCom>>)
    /\ sel.host = ExampleCom
    /\ ~sel.result

\* C20: with mode disabled, or with an empty pattern list under any mode, the
\* rule is active on every hostname.
C20_NoFilter ==
    (DomainDone /\ (FilterInForce.type = "disabled" \/ FilterInForce.domains = <<>>))
        => sel.result

\* a rule with an empty whitelist of its own is active although the global
\* whitelist does not name the host
C20_Witness ==
    /\ DomainDone
    /\ OwnFilter = DomainList("whitelist", <<>>)
    /\ sel.globalDomainList = DomainList("whitelist", <<ExampleCom>>)
    /\ sel.host = pageDomain
    /\ sel.result

\* the pattern is a regular expression that does not compile
IsInvalidPattern(pattern) ==
    /\ IsRegexForm(pattern)
    /\ ~NewRegExp(SubSeq(pattern, 2, Len(pattern) - 1), FALSE).ok

\* the positions of the list whose pattern is valid and matches the host
ValidMatches(filter, host) ==
    {i \in 1..Len(filter.domains) :
        /\ ~IsInvalidPattern(filter.domains[i])
        /\ IF IsRegexForm(filter.domains[i])
           THEN Exec(NewRegExp(SubSeq(filter.domains[i], 2,
                                      Len(filter.domains[i]) - 1), FALSE),
                     host, 0).found
           ELSE EqualIgnoringCase(filter.domains[i], host)}

\* C21: a domain pattern whose regular expression is invalid counts as not
\* matching, for that pattern only: checkDomainForRule returns a decision, the
\* patterns after it are still evaluated, and the whitelist or blacklist
\* decision is the one the valid patterns of the list give.
C21_InvalidPatternSkipped ==
    (/\ DomainDone
     /\ FilterInForce.type \in {"whitelist", "blacklist"}
     /\ \E i \in 1..Len(FilterInForce.domains) :
            IsInvalidPattern(FilterInForce.domains[i]))
        => /\ sel.result \in BOOLEAN
           /\ sel.result <=> ((FilterInForce.type = "whitelist")
                                <=> (ValidMatches(FilterInForce, sel.host) # {}))

\* under the global whitelist [/*/, /m/] an inheriting rule is active on a.m:
\* the pattern after the invalid one has matched
C21_Witness ==
    /\ DomainDone
    /\ OwnFilter.type = "inherit"
    /\ sel.globalDomainList =
        DomainList("whitelist", << <<"/", "*", "/">>, <<"/", "m", "/">> >>)
    /\ sel.host = pageDomain
    /\ sel.result

(***************************************************************************)
(* One literal rule on one text node: createRegExpForRule and then the     *)
(* engine, called on the node as a watcher batch calls it                  *)
(***************************************************************************)
MatchChars == {"m", "M", "b", "\\"}

\* find texts: plain, in upper case, with a backslash at either end, and
\* ending with the two characters \b
FindPool ==
    {<<"m">>, <<"M">>, <<"b">>, <<"m", "b">>, <<"M", "m">>, <<"\\">>,
     <<"m", "\\">>, <<"\\", "m">>, <<"\\", "b">>, <<"m", "\\", "b">>}

\* the parent of the text node: the div of the page, a replacement span
\* with the title m, and a replacement span with an empty title, as the
\* engine makes for a match of length 0
MatchParents ==
    {ElementNode("DIV", Body, FALSE, <<>>, "page"),
     ElementNode("SPAN", Body, TRUE, <<"m">>, "replacer"),
     ElementNode("SPAN", Body, TRUE, <<>>, "replacer")}

\* a literal rule, the disabled ids and a text node are given, the text long
\* enough for the longest find text and a character after it
MatchCall ==
    /\ sel.pc = "idle"
    /\ \E find \in FindPool, isCaseSensitive \in BOOLEAN, isWholeWord \in BOOLEAN,
          disabled \in {{}, {"rule_match"}},
          text \in TextsUpTo(MatchChars, MaxLen + 1),
          parent \in MatchParents :
        /\ sel' = [pc |-> "called", text |-> text, disabled |-> disabled,
                   rule |-> Rule("rule_match", find, <<"x">>, FALSE, isCaseSensitive,
                                 isWholeWord)]
        /\ dom' = [InitialDom(text) EXCEPT ![2] = parent]
    /\ kids' = InitialKids
    /\ UNCHANGED <<engineVars, store, currentSettings, isProcessing, observer,
                   records, rafQueue, inits, pageOps, trail>>

\* the rule is compiled and the engine has run on the text node with it
MatchReturn ==
    /\ sel.pc = "called"
    /\ \E st \in {RunScan(ScanStart(sel.text, <<Compiled(sel.rule)>>, sel.disabled,
                                     ParentTitle(World, 3)))} :
        sel' = [pc |-> "done", text |-> sel.text, disabled |-> sel.disabled,
                rule |-> sel.rule, regex |-> createRegExpForRule(sel.rule),
                hasFragment |-> st.hasFragment, fragment |-> st.fragment]
    /\ \E w \in {processNodeWithApplicableRules(World, 3, <<Compiled(sel.rule)>>,
                                                sel.disabled, TRUE, "batch")} :
        SetWorld(w)
    /\ UNCHANGED <<engineVars, store, currentSettings, observer, rafQueue, inits,
                   pageOps>>

NextMatch == MatchCall \/ MatchReturn

SpecMatch == InitSelect /\ [][NextMatch]_vars

(***************************************************************************)
(* The options page and the background script: the stored rule bundles    *)
(***************************************************************************)
MaxOps == 3   \* runs of handlers and of the preloader that change the bundles

\* generateUniqueID and generateUuid: prefix, Date.now() and a random part;
\* now is the number of the handler run, k the position of the call in it
generateUniqueID(prefix, now, k) ==
    prefix \o "_" \o ToString(now) \o "_" \o ToString(k)

NamedBundle(id, name, isDefault, source, requiresLicense, rules) ==
    [id |-> id, name |-> name, isDefault |-> isDefault, source |-> source,
     requiresLicense |-> requiresLicense, rules |-> rules]

\* the settings onInstalled stores on installation; the bundle name
\* 'Go Buckeyes!' is shortened to two letters
defaultLocalSettings ==
    [isEnabled |-> TRUE,
     domainList |-> InstalledDomainList,
     ruleBundles |-> <<NamedBundle("default_buckeye", <<"M", "m">>, TRUE,
                                   "hardcoded", FALSE, fallbackDefaultRules)>>,
     activeBundleId |-> "default_buckeye",
     disabledRuleIds |-> {}]

\* rule.find || '' and the like: the field of the file's object, or the default
FieldOr(object, field, default) ==
    IF field \in DOMAIN object THEN object[field] ELSE default

\* the rules of a bundle file, sanitized, with new ids
ProcessedRules(rules, prefix, now) ==
    [i \in 1..Len(rules) |->
        [id |-> generateUniqueID(prefix, now, i),
         find |-> FieldOr(rules[i], "find", <<>>),
         replace |-> FieldOr(rules[i], "replace", <<>>),
         isRegex |-> FieldOr(rules[i], "isRegex", FALSE),
         isCaseSensitive |-> FieldOr(rules[i], "isCaseSensitive", FALSE),
         isWholeWord |-> FieldOr(rules[i], "isWholeWord", FALSE),
         domainList |-> FieldOr(rules[i], "domainList", InheritList)]]

\* String.prototype.trim, for the space character
RECURSIVE Trim(_)
Trim(str) ==
    IF str = <<>> THEN str
    ELSE IF Head(str) = " " THEN Trim(Tail(str))
    ELSE IF str[Len(str)] = " " THEN Trim(SubSeq(str, 1, Len(str) - 1))
    ELSE str

\* some bundle other than the one with the id has the name, letter case aside
NameTaken(bundles, name, id) ==
    \E i \in 1..Len(bundles) :
        /\ bundles[i].id # id
        /\ ToLowerCase(bundles[i].name) = ToLowerCase(name)

\* the index of the active bundle in the options page's bundles, 0 if none
ActiveIndex(cs) == FindById(cs.ruleBundles, cs.activeBundleId, 1)

\* as updateRuleData, without the test of the bundle's source
updateRuleDataAnySource(cs, ruleId, propertyPath, value) ==
    LET a == ActiveIndex(cs)
        i == IF a = 0 THEN 0 ELSE FindById(cs.ruleBundles[a].rules, ruleId, 1)
    IN  IF a = 0 \/ i = 0 THEN cs
        ELSE IF Len(propertyPath) = 1
        THEN [cs EXCEPT !.ruleBundles[a].rules[i][propertyPath[1]] = value]
        ELSE [cs EXCEPT !.ruleBundles[a].rules[i][propertyPath[1]][propertyPath[2]] = value]

\* updateRuleData: propertyPath is the path already split at its dots
updateRuleData(cs, ruleId, propertyPath, value) ==
    LET a == ActiveIndex(cs)
        i == IF a = 0 THEN 0 ELSE FindById(cs.ruleBundles[a].rules, ruleId, 1)
    IN  IF a = 0 \/ cs.ruleBundles[a].source # "user" \/ i = 0 THEN cs
        ELSE IF Len(propertyPath) = 1
        THEN [cs EXCEPT !.ruleBundles[a].rules[i][propertyPath[1]] = value]
        ELSE [cs EXCEPT !.ruleBundles[a].rules[i][propertyPath[1]][propertyPath[2]] = value]

handleRemoveRule(cs, ruleId) ==
    LET a == ActiveIndex(cs)
    IN  IF a = 0 \/ cs.ruleBundles[a].source # "user" \/ ~cs.isLicensed THEN cs
        ELSE [cs EXCEPT !.ruleBundles[a].rules = SelectSeq(@, LAMBDA r : r.id # ruleId),
                        !.disabledRuleIds = @ \ {ruleId}]

handleAddRule(cs, now) ==
    LET a == ActiveIndex(cs)
    IN  IF ~cs.isLicensed \/ a = 0 \/ cs.ruleBundles[a].source # "user" THEN cs
        ELSE [cs EXCEPT !.ruleBundles[a].rules =
                 Append(@, Rule(generateUniqueID("rule", now, 1), <<>>, <<>>,
                                FALSE, FALSE, FALSE))]

\* handleDrop: the rule draggedRuleId is dropped in front of the rule
\* nextElementId, or at the end of the list if no rule has that id
handleDrop(cs, draggedRuleId, nextElementId) ==
    LET a == ActiveIndex(cs)
    IN  IF a = 0 \/ cs.ruleBundles[a].source # "user" \/ ~cs.isLicensed THEN cs
        ELSE LET rules == cs.ruleBundles[a].rules
                 originalDraggedIndex == FindById(rules, draggedRuleId, 1)
                 found == FindById(rules, nextElementId, 1)
                 targetIndex == IF found = 0 THEN Len(rules) + 1 ELSE found
                 adjustedTargetIndex ==
                     IF originalDraggedIndex < targetIndex
                     THEN targetIndex - 1 ELSE targetIndex
                 rest == SubSeq(rules, 1, originalDraggedIndex - 1)
                         \o SubSeq(rules, originalDraggedIndex + 1, Len(rules))
                 at == IF adjustedTargetIndex < 1 THEN 1
                       ELSE IF adjustedTargetIndex > Len(rest) + 1
                       THEN Len(rest) + 1 ELSE adjustedTargetIndex
             IN  IF originalDraggedIndex = 0
                    \/ originalDraggedIndex = adjustedTargetIndex
                 THEN cs
                 ELSE [cs EXCEPT !.ruleBundles[a].rules =
                          SubSeq(rest, 1, at - 1) \o <<rules[originalDraggedIndex]>>
                          \o SubSeq(rest, at, Len(rest))]

\* handleRenameBundle: newName is what the prompt returned
handleRenameBundle(cs, newName) ==
    LET a == ActiveIndex(cs)
    IN  IF ~cs.isLicensed \/ a = 0 \/ cs.ruleBundles[a].source # "user" THEN cs
        ELSE IF Trim(newName) = <<>> \/ newName = cs.ruleBundles[a].name THEN cs
        ELSE IF NameTaken(cs.ruleBundles, Trim(newName), cs.activeBundleId) THEN cs
        ELSE [cs EXCEPT !.ruleBundles[a].name = Trim(newName)]

handleBundleChange(cs, newBundleId) ==
    IF newBundleId # cs.activeBundleId
    THEN [cs EXCEPT !.activeBundleId = newBundleId] ELSE cs

CopyOf == <<"C", "o", "p", "y", " ", "o", "f", " ">>

\* as CopiedBundle, keeping the isDefault flag of the bundle copied
CopiedBundleKeepingDefault(activeBundle, now) ==
    NamedBundle(generateUniqueID("bundle", now, 0), CopyOf \o activeBundle.name,
                activeBundle.isDefault, "user", FALSE,
                [i \in 1..Len(activeBundle.rules) |->
                    [activeBundle.rules[i] EXCEPT
                        !.id = generateUniqueID("rule", now, i)]])

\* the bundle handleCopyBundle adds: a deep copy with new ids
CopiedBundle(activeBundle, now) ==
    NamedBundle(generateUniqueID("bundle", now, 0), CopyOf \o activeBundle.name,
                FALSE, "user", FALSE,
                [i \in 1..Len(activeBundle.rules) |->
                    [activeBundle.rules[i] EXCEPT
                        !.id = generateUniqueID("rule", now, i)]])

handleCopyBundle(cs, now) ==
    LET a == ActiveIndex(cs)
    IN  IF ~cs.isLicensed \/ a = 0 THEN cs
        ELSE [cs EXCEPT
                 !.ruleBundles = Append(@, CopiedBundle(cs.ruleBundles[a], now)),
                 !.activeBundleId = generateUniqueID("bundle", now, 0)]

\* handleDeleteBundle: confirmed is the answer to the confirm dialog
\* handleDeleteBundle without the test of the bundle's source
handleDeleteBundleAnySource(cs, confirmed) ==
    LET a == ActiveIndex(cs)
    IN  IF a = 0 \/ Len(cs.ruleBundles) <= 1 \/ ~confirmed
        THEN cs
        ELSE LET rest == SubSeq(cs.ruleBundles, 1, a - 1)
                         \o SubSeq(cs.ruleBundles, a + 1, Len(cs.ruleBundles))
             IN  [cs EXCEPT !.ruleBundles = rest, !.activeBundleId = rest[1].id]

handleDeleteBundle(cs, confirmed) ==
    LET a == ActiveIndex(cs)
    IN  IF a = 0 \/ cs.ruleBundles[a].source = "hardcoded"
           \/ Len(cs.ruleBundles) <= 1 \/ ~confirmed
        THEN cs
        ELSE LET rest == SubSeq(cs.ruleBundles, 1, a - 1)
                         \o SubSeq(cs.ruleBundles, a + 1, Len(cs.ruleBundles))
             IN  [cs EXCEPT !.ruleBundles = rest, !.activeBundleId = rest[1].id]

\* the name processImportFile gives an imported bundle: the first of
\* baseName, baseName (1), baseName (2), ... no bundle has
RECURSIVE UniqueName(_, _, _, _)
UniqueName(bundles, baseName, finalBundleName, counter) ==
    IF NameTaken(bundles, finalBundleName, NullId)
    THEN UniqueName(bundles, baseName,
                    baseName \o <<" ", "(", ToString(counter), ")">>, counter + 1)
    ELSE finalBundleName

\* processImportFile for one file: the bundles index and after of parsedData
RECURSIVE processImportFile(_, _, _, _)
processImportFile(cs, parsedData, index, now) ==
    IF ~cs.isLicensed \/ index > Len(parsedData) THEN cs
    ELSE IF FieldOr(parsedData[index], "name", <<>>) = <<>>
            \/ "rules" \notin DOMAIN parsedData[index]
    THEN processImportFile(cs, parsedData, index + 1, now)
    ELSE processImportFile(
             [cs EXCEPT
                 !.ruleBundles = Append(@,
                     NamedBundle(generateUniqueID("bundle", now, index),
                                 UniqueName(cs.ruleBundles, parsedData[index].name,
                                            parsedData[index].name, 1),
                                 FALSE, "user", FALSE,
                                 ProcessedRules(parsedData[index].rules,
                                     "import_rule_" \o ToString(index), now))),
                 !.activeBundleId = generateUniqueID("bundle", now, index)],
             parsedData, index + 1, now)

\* processPreloadedBundles: the new bundles of one fetched file, those at
\* index and after
RECURSIVE BundlesToAdd(_, _, _, _)
BundlesToAdd(existingBundles, bundleDataArray, index, now) ==
    IF index > Len(bundleDataArray) THEN <<>>
    ELSE IF \/ "name" \notin DOMAIN bundleDataArray[index]
            \/ "rules" \notin DOMAIN bundleDataArray[index]
            \/ \E i \in 1..Len(existingBundles) :
                   /\ existingBundles[i].name = bundleDataArray[index].name
                   /\ existingBundles[i].source = "preloaded"
    THEN BundlesToAdd(existingBundles, bundleDataArray, index + 1, now)
    ELSE <<NamedBundle(generateUniqueID("uuid", now, index),
                       bundleDataArray[index].name, FALSE, "preloaded",
                       FieldOr(bundleDataArray[index], "requiresLicense", FALSE),
                       ProcessedRules(bundleDataArray[index].rules,
                                      "uuid_" \o ToString(index), now))>>
         \o BundlesToAdd(existingBundles, bundleDataArray, index + 1, now)

\* a bundle file of the extension, and the files the user imports: one that
\* claims to be the default bundle under the installed bundle's name, and
\* one whose first entry has no name
PreloadedFile ==
    <<[name |-> <<"x">>, isDefault |-> TRUE, requiresLicense |-> TRUE,
       rules |-> <<[find |-> <<"a">>, replace |-> <<"z">>]>>]>>
ImportFiles ==
    {<<[name |-> <<"m", "m">>, isDefault |-> TRUE, source |-> "hardcoded",
        rules |-> <<[find |-> <<"m">>, replace |-> <<"y">>, isWholeWord |-> TRUE]>>]>>,
     <<[rules |-> <<>>], [name |-> <<"x">>, isDefault |-> TRUE, rules |-> <<>>]>>}
RenameInputs == {<<>>, <<"x", " ">>, <<"M", "M">>}
EditInputs == {<< <<"find">>, <<"a">> >>, << <<"domainList", "type">>, "whitelist" >>}

\* the rule ids of the rule elements the options page shows
ShownRuleIds ==
    IF ActiveIndex(currentSettings) = 0 THEN {}
    ELSE {currentSettings.ruleBundles[ActiveIndex(currentSettings)].rules[i].id :
            i \in 1..Len(currentSettings.ruleBundles[ActiveIndex(currentSettings)].rules)}

\* the options page after loadSettings, the preloader not yet run
OptionsLoaded ==
    [pc |-> "options", ops |-> 0, isSavingInternally |-> FALSE,
     preloading |-> FALSE, existingBundles |-> <<>>, deleted |-> FALSE]

InitOptions ==
    /\ scan = ScanIdle
    /\ scanLog = <<>>
    /\ sel = OptionsLoaded
    /\ store = [sync |-> [isLicensed |-> FALSE], local |-> defaultLocalSettings]
    /\ currentSettings =
           [isLicensed |-> FALSE,
            isEnabled |-> defaultLocalSettings.isEnabled,
            domainList |-> defaultLocalSettings.domainList,
            ruleBundles |-> defaultLocalSettings.ruleBundles,
            activeBundleId |-> defaultLocalSettings.activeBundleId,
            disabledRuleIds |-> defaultLocalSettings.disabledRuleIds]
    /\ isProcessing = FALSE
    /\ observer = FALSE
    /\ records = <<>>
    /\ rafQueue = <<>>
    /\ inits = <<>>
    /\ dom = <<>>
    /\ kids = <<>>
    /\ pageOps = 0
    /\ trail = <<>>

\* a handler of the options page has run: settings is what it left in
\* currentSettings, save tells whether it called saveLocalSettings, whose
\* write sets isSavingInternally; sel.ops counts the runs that changed the
\* settings
Handled(settings, save) ==
    /\ sel.ops < MaxOps
    /\ currentSettings' = settings
    /\ store' = IF save
                THEN [store EXCEPT !.local =
                         [isEnabled |-> settings.isEnabled,
                          domainList |-> settings.domainList,
                          ruleBundles |-> settings.ruleBundles,
                          activeBundleId |-> settings.activeBundleId,
                          disabledRuleIds |-> settings.disabledRuleIds]]
                ELSE store
    /\ sel' = [sel EXCEPT !.ops = IF settings # currentSettings THEN @ + 1 ELSE @,
                          !.isSavingInternally = @ \/ save,
                          !.deleted = @ \/ Len(settings.ruleBundles)
                                              < Len(currentSettings.ruleBundles)]
    /\ UNCHANGED <<engineVars, isProcessing, observer, records, rafQueue,
                   inits, dom, kids, pageOps, trail>>

OptAddRule ==
    \E cs \in {handleAddRule(currentSettings, sel.ops)} :
        Handled(cs, cs # currentSettings)

OptRemoveRule ==
    \E ruleId \in ShownRuleIds :
        \E cs \in {handleRemoveRule(currentSettings, ruleId)} :
            Handled(cs, cs # currentSettings)

\* a change listener of a rule element: updateRuleData, then saveLocalSettings
OptEditRule ==
    \E ruleId \in ShownRuleIds, edit \in EditInputs :
        \E cs \in {updateRuleData(currentSettings, ruleId, edit[1], edit[2])} :
            Handled(cs, TRUE)

OptDrop ==
    \E draggedRuleId \in ShownRuleIds, nextElementId \in ShownRuleIds \cup {NullId} :
        \E cs \in {handleDrop(currentSettings, draggedRuleId, nextElementId)} :
            Handled(cs, cs # currentSettings)

OptRenameBundle ==
    \E newName \in RenameInputs :
        \E cs \in {handleRenameBundle(currentSettings, newName)} :
            Handled(cs, cs # currentSettings)

OptBundleChange ==
    \E i \in 1..Len(currentSettings.ruleBundles) :
        \E cs \in {handleBundleChange(currentSettings, currentSettings.ruleBundles[i].id)} :
            Handled(cs, cs # currentSettings)

OptCopyBundle ==
    \E cs \in {handleCopyBundle(currentSettings, sel.ops)} :
        Handled(cs, cs # currentSettings)

OptDeleteBundle ==
    \E confirmed \in BOOLEAN :
        \E cs \in {handleDeleteBundle(currentSettings, confirmed)} :
            Handled(cs, cs # currentSettings)

OptImport ==
    \E file \in ImportFiles :
        \E cs \in {processImportFile(currentSettings, file, 1, sel.ops)} :
            Handled(cs, cs # currentSettings)

\* handleLicenseActivation with a valid key: the background script stores
\* the license, the options page sets its flag
LicenseActivation ==
    /\ ~currentSettings.isLicensed
    /\ store' = [store EXCEPT !.sync.isLicensed = TRUE]
    /\ currentSettings' = [currentSettings EXCEPT !.isLicensed = TRUE]
    /\ UNCHANGED <<engineVars, sel, isProcessing, observer, records, rafQueue,
                   inits, dom, kids, pageOps, trail>>

\* the timer set when a write completed resets isSavingInternally
SavingReset ==
    /\ sel.isSavingInternally
    /\ sel' = [sel EXCEPT !.isSavingInternally = FALSE]
    /\ UNCHANGED <<engineVars, store, currentSettings, isProcessing, observer,
                   records, rafQueue, inits, dom, kids, pageOps, trail>>

\* processPreloadedBundles up to its fetch: the stored bundles are read
PreloadGet ==
    /\ ~sel.preloading
    /\ sel.ops < MaxOps
    /\ sel' = [sel EXCEPT !.preloading = TRUE,
                          !.existingBundles = store.local.ruleBundles]
    /\ UNCHANGED <<engineVars, store, currentSettings, isProcessing, observer,
                   records, rafQueue, inits, dom, kids, pageOps, trail>>

\* processPreloadedBundles from its fetch on: the bundles of the file that
\* were not stored are added to the bundles read and the list is written;
\* the storage listener of the options page takes the written list over
\* unless isSavingInternally is set
PreloadSave ==
    /\ sel.preloading
    /\ \E fetched \in BOOLEAN :
        \E bundlesToAdd \in
            {IF fetched
             THEN BundlesToAdd(sel.existingBundles, PreloadedFile, 1, sel.ops)
             ELSE <<>>} :
            /\ store' = IF bundlesToAdd = <<>> THEN store
                        ELSE [store EXCEPT !.local.ruleBundles =
                                 sel.existingBundles \o bundlesToAdd]
            /\ currentSettings' =
                   IF bundlesToAdd = <<>> \/ sel.isSavingInternally
                   THEN currentSettings
                   ELSE [currentSettings EXCEPT !.ruleBundles =
                            sel.existingBundles \o bundlesToAdd]
            /\ sel' = [sel EXCEPT
                          !.preloading = FALSE, !.existingBundles = <<>>,
                          !.ops = IF bundlesToAdd = <<>> THEN @ ELSE @ + 1]
    /\ UNCHANGED <<engineVars, isProcessing, observer, records, rafQueue,
                   inits, dom, kids, pageOps, trail>>

NextOptions ==
    \/ OptAddRule
    \/ OptRemoveRule
    \/ OptEditRule
    \/ OptDrop
    \/ OptRenameBundle
    \/ OptBundleChange
    \/ OptCopyBundle
    \/ OptDeleteBundle
    \/ OptImport
    \/ LicenseActivation
    \/ SavingReset
    \/ PreloadGet
    \/ PreloadSave

SpecOptions == InitOptions /\ [][NextOptions]_vars

(***************************************************************************)
(* Overlapping calls of initialize: the observers and the loaded settings  *)
(***************************************************************************)

\* startObserver without the test of the variable `observer`
startObserverUnguarded(page) ==
    [page EXCEPT !.observer = TRUE, !.connected = @ + 1]

\* startObserver(): unless `observer` holds one, a MutationObserver is
\* created and connected to document.body
startObserver(page) ==
    IF page.observer THEN page
    ELSE [page EXCEPT !.observer = TRUE, !.connected = @ + 1]

\* if (observer) { observer.disconnect(); observer = null; }
disconnectObserver(page) ==
    IF page.observer THEN [page EXCEPT !.observer = FALSE, !.connected = @ - 1]
    ELSE page

\* the finally block of initialize
InitializeFinally(page, settings) ==
    IF settings.isEnabled THEN startObserver(page) ELSE disconnectObserver(page)

\* the variable `observer` and the number of connected MutationObservers
ObserverPage == [observer |-> observer, connected |-> sel.connected]

\* the page with its content script loaded: no observer yet, nothing read
ReloadLoaded ==
    [pc |-> "reload", connected |-> 0, overlapped |-> FALSE, failed |-> FALSE,
     lastSync |-> {}, lastLocal |-> {}]

InitReload ==
    /\ scan = ScanIdle
    /\ scanLog = <<>>
    /\ sel = ReloadLoaded
    /\ store \in StoreConfigs
    /\ currentSettings = InitialSettings
    /\ isProcessing = FALSE
    /\ observer = FALSE
    /\ records = <<>>
    /\ rafQueue = <<>>
    /\ inits = <<[pc |-> "sync", syncResult |-> [isLicensed |-> FALSE]]>>
    /\ dom = InitialDom(LoadedText)
    /\ kids = InitialKids
    /\ pageOps = 0
    /\ trail = <<>>

\* the scripts of the extension that call notifyContentScriptSettingsChanged
Senders == {"popup", "options", "background", "backgroundVariant"}

\* the message notifyContentScriptSettingsChanged of the sender passes to
\* chrome.tabs.sendMessage
notifyContentScriptSettingsChanged(sender) ==
    IF sender = "backgroundVariant" THEN [type |-> "settingsUpdated"]
    ELSE [action |-> "settingsUpdated"]

\* the test of the content script's message listener
IsSettingsUpdated(request) ==
    FieldOr(request, "action", "undefined") = "settingsUpdated"

\* a notification of one of the senders arrives at the message listener: for
\* a recognised one initialize() runs up to its first await
ReloadMessage ==
    /\ TaskMayRun
    /\ pageOps < MaxEvents
    /\ pageOps' = pageOps + 1
    /\ trail' = <<>>
    /\ \E sender \in Senders :
        IF IsSettingsUpdated(notifyContentScriptSettingsChanged(sender))
        THEN /\ \E page \in {disconnectObserver(ObserverPage)} :
                  /\ observer' = page.observer
                  /\ sel' = [sel EXCEPT !.connected = page.connected,
                                        !.overlapped = @ \/ inits # <<>>]
             /\ records' = <<>>
             /\ inits' = Append(inits, [pc |-> "sync",
                                        syncResult |-> [isLicensed |-> FALSE]])
             /\ UNCHANGED <<engineVars, store, currentSettings, isProcessing,
                            rafQueue, dom, kids>>
        ELSE UNCHANGED <<engineVars, sel, store, currentSettings, isProcessing,
                         observer, records, rafQueue, inits, dom, kids>>

\* chrome.storage.sync.get resolves for one of the calls in flight;
\* chrome.storage.local.get is called
ReloadSyncRead ==
    /\ TaskMayRun
    /\ \E i \in 1..Len(inits) :
        /\ inits[i].pc = "sync"
        /\ inits' = [inits EXCEPT ![i] = [pc |-> "local", syncResult |-> store.sync]]
    /\ sel' = [sel EXCEPT !.lastSync = {store.sync}]
    /\ trail' = <<>>
    /\ UNCHANGED <<engineVars, store, currentSettings, isProcessing,
                   observer, records, rafQueue, dom, kids, pageOps>>

\* the state after the try or the catch block of one call: the finally block
\* runs with the settings the block assigned
ReloadCompletes(i, settings, failed) ==
    /\ inits' = Remove(inits, i)
    /\ currentSettings' = settings
    /\ \E page \in {InitializeFinally(ObserverPage, settings)} :
        /\ observer' = page.observer
        /\ sel' = [sel EXCEPT !.connected = page.connected,
                              !.failed = @ \/ failed,
                              !.lastLocal = IF failed THEN @ ELSE {store.local}]
    /\ rafQueue' = IF settings.isEnabled THEN Append(rafQueue, WalkFrame) ELSE rafQueue
    /\ records' = <<>>
    /\ trail' = <<>>
    /\ UNCHANGED <<engineVars, store, isProcessing, dom, kids, pageOps>>

\* chrome.storage.local.get resolves for one of the calls in flight: the
\* settings are assigned and the finally block runs
ReloadLocalRead ==
    /\ TaskMayRun
    /\ \E i \in 1..Len(inits) :
        /\ inits[i].pc = "local"
        /\ ReloadCompletes(i, LoadedSettings(inits[i].syncResult, store.local), FALSE)

\* a read of one of the calls in flight rejects: the catch block assigns the
\* defaults and the finally block runs
ReloadReadFails ==
    /\ TaskMayRun
    /\ \E i \in 1..Len(inits) : ReloadCompletes(i, SafeDefaults, TRUE)

NextReload ==
    \/ StoreChange
    \/ ReloadMessage
    \/ ReloadSyncRead
    \/ ReloadLocalRead
    \/ ReloadReadFails
    \/ ObserverCallback
    \/ FrameWalk
    \/ FrameBatch

SpecReload == InitReload /\ [][NextReload]_vars

(***************************************************************************)
(* The options page's debounced save against the popup's toggle            *)
(***************************************************************************)

\* the object saveLocalSettings of the options page passes to
\* chrome.storage.local.set
SettingsToSave(cs) ==
    [isEnabled |-> cs.isEnabled,
     domainList |-> cs.domainList,
     ruleBundles |-> cs.ruleBundles,
     activeBundleId |-> cs.activeBundleId,
     disabledRuleIds |-> cs.disabledRuleIds]

\* the changes object of chrome.storage.onChanged: the new values of the keys
\* a write of items changed
ChangesOf(old, items) ==
    [key \in {k \in DOMAIN items : items[k] # old[k]} |-> items[key]]

\* chrome.storage.local.set(items)
LocalSet(local, items) ==
    [key \in DOMAIN local |-> IF key \in DOMAIN items THEN items[key] ELSE local[key]]

\* the options page's storage.onChanged listener for a change of the local
\* area, past the test of isSavingInternally
OnLocalChanged(cs, changes) ==
    [cs EXCEPT
        !.isEnabled = FieldOr(changes, "isEnabled", @),
        !.ruleBundles = FieldOr(changes, "ruleBundles", @),
        !.activeBundleId = FieldOr(changes, "activeBundleId", @),
        !.domainList = FieldOr(changes, "domainList", @),
        !.disabledRuleIds = FieldOr(changes, "disabledRuleIds", @)]

\* the options page and the popup, both loaded from the installed settings
SaveLoaded ==
    [pc |-> "save", ops |-> 0, saveLocalTimeout |-> FALSE,
     isSavingInternally |-> FALSE, setsInFlight |-> 0, resetTimers |-> 0,
     changes |-> <<>>,
     popup |-> [isEnabled |-> defaultLocalSettings.isEnabled,
                savePopupTimeout |-> FALSE],
     popupWrote |-> FALSE]

InitSave ==
    /\ scan = ScanIdle
    /\ scanLog = <<>>
    /\ sel = SaveLoaded
    /\ store = [sync |-> [isLicensed |-> FALSE], local |-> defaultLocalSettings]
    /\ currentSettings =
           [isLicensed |-> FALSE,
            isEnabled |-> defaultLocalSettings.isEnabled,
            domainList |-> defaultLocalSettings.domainList,
            ruleBundles |-> defaultLocalSettings.ruleBundles,
            activeBundleId |-> defaultLocalSettings.activeBundleId,
            disabledRuleIds |-> defaultLocalSettings.disabledRuleIds]
    /\ isProcessing = FALSE
    /\ observer = FALSE
    /\ records = <<>>
    /\ rafQueue = <<>>
    /\ inits = <<>>
    /\ dom = <<>>
    /\ kids = <<>>
    /\ pageOps = 0
    /\ trail = <<>>

\* an edit of a rule in the options page: updateRuleData, then
\* saveLocalSettings() restarts the debounce timer
SaveEdit ==
    /\ sel.ops < MaxOps
    /\ \E ruleId \in ShownRuleIds, edit \in EditInputs :
        currentSettings' = updateRuleData(currentSettings, ruleId, edit[1], edit[2])
    /\ sel' = [sel EXCEPT !.ops = @ + 1, !.saveLocalTimeout = TRUE]
    /\ UNCHANGED <<engineVars, store, isProcessing, observer, records, rafQueue,
                   inits, dom, kids, pageOps, trail>>

\* the debounce timer of saveLocalSettings fires: isSavingInternally is set
\* and the local settings are written; the popup's listener takes over a
\* changed isEnabled
SaveTimerFires ==
    /\ sel.saveLocalTimeout
    /\ \E items \in {SettingsToSave(currentSettings)} :
        /\ store' = [store EXCEPT !.local = LocalSet(@, items)]
        /\ sel' = [sel EXCEPT
                      !.saveLocalTimeout = FALSE,
                      !.isSavingInternally = TRUE,
                      !.setsInFlight = @ + 1,
                      !.popup.isEnabled = items.isEnabled,
                      !.changes = IF DOMAIN ChangesOf(store.local, items) = {} THEN @
                                  ELSE Append(@, ChangesOf(store.local, items))]
    /\ UNCHANGED <<engineVars, currentSettings, isProcessing, observer, records,
                   rafQueue, inits, dom, kids, pageOps, trail>>

\* the callback of chrome.storage.local.set: the timer that resets
\* isSavingInternally is started
SaveCallback ==
    /\ sel.setsInFlight > 0
    /\ sel' = [sel EXCEPT !.setsInFlight = @ - 1, !.resetTimers = @ + 1]
    /\ UNCHANGED <<engineVars, store, currentSettings, isProcessing, observer,
                   records, rafQueue, inits, dom, kids, pageOps, trail>>

\* setTimeout(() => { isSavingInternally = false; }, 100)
SaveResetTimer ==
    /\ sel.resetTimers > 0
    /\ sel' = [sel EXCEPT !.resetTimers = @ - 1, !.isSavingInternally = FALSE]
    /\ UNCHANGED <<engineVars, store, currentSettings, isProcessing, observer,
                   records, rafQueue, inits, dom, kids, pageOps, trail>>

\* a change event of the local area reaches the options page's listener
SaveOnChanged ==
    /\ sel.changes # <<>>
    /\ currentSettings' =
           IF sel.isSavingInternally THEN currentSettings
           ELSE OnLocalChanged(currentSettings, Head(sel.changes))
    /\ sel' = [sel EXCEPT !.changes = Tail(@)]
    /\ UNCHANGED <<engineVars, store, isProcessing, observer, records, rafQueue,
                   inits, dom, kids, pageOps, trail>>

\* the toggle of the popup: the flag is taken from the checkbox and
\* savePopupSettings restarts its debounce timer
PopupToggle ==
    /\ sel.ops < MaxOps
    /\ sel' = [sel EXCEPT !.ops = @ + 1,
                          !.popup = [isEnabled |-> ~@.isEnabled,
                                     savePopupTimeout |-> TRUE]]
    /\ UNCHANGED <<engineVars, store, currentSettings, isProcessing, observer,
                   records, rafQueue, inits, dom, kids, pageOps, trail>>

\* the debounce timer of savePopupSettings fires: isEnabled alone is written
PopupSaveFires ==
    /\ sel.popup.savePopupTimeout
    /\ \E items \in {[isEnabled |-> sel.popup.isEnabled]} :
        /\ store' = [store EXCEPT !.local = LocalSet(@, items)]
        /\ sel' = [sel EXCEPT
                      !.popup.savePopupTimeout = FALSE,
                      !.popupWrote = TRUE,
                      !.changes = IF DOMAIN ChangesOf(store.local, items) = {} THEN @
                                  ELSE Append(@, ChangesOf(store.local, items))]
    /\ UNCHANGED <<engineVars, currentSettings, isProcessing, observer, records,
                   rafQueue, inits, dom, kids, pageOps, trail>>

NextSave ==
    \/ SaveEdit
    \/ SaveTimerFires
    \/ SaveCallback
    \/ SaveResetTimer
    \/ SaveOnChanged
    \/ PopupToggle
    \/ PopupSaveFires

SpecSave == InitSave /\ [][NextSave]_vars

(***************************************************************************)
(* The background script's offscreen document                              *)
(***************************************************************************)

\* calls of setupOffscreenDocument and closings of the document
MaxSetups == 4

\* hasOffscreenDocument(): whether the document exists, and false when the
\* check fails
hasOffscreenDocument(exists, checkFails) == IF checkFails THEN FALSE ELSE exists

\* the background script started: no document, no call of
\* setupOffscreenDocument yet
OffscreenLoaded ==
    [pc |-> "offscreen", ops |-> 0, document |-> FALSE, creations |-> {},
     creatingOffscreenPromise |-> 0, calls |-> <<>>, invoked |-> 0,
     keepAlive |-> FALSE]

InitOffscreen ==
    /\ scan = ScanIdle
    /\ scanLog = <<>>
    /\ sel = OffscreenLoaded
    /\ PageIdle

UnchangedButSel ==
    UNCHANGED <<engineVars, store, currentSettings, isProcessing, observer,
                records, rafQueue, inits, dom, kids, pageOps, trail>>

\* setupOffscreenDocument() is called and runs up to its first await
SetupCall ==
    /\ sel.ops < MaxSetups
    /\ sel' = [sel EXCEPT !.ops = @ + 1,
                          !.calls = Append(@, [pc |-> "check", promise |-> 0])]
    /\ UnchangedButSel

\* hasOffscreenDocument returns to a call: the call ends if the document exists, waits
\* if a creation is under way, and calls chrome.offscreen.createDocument
\* otherwise
CheckReturns ==
    /\ \E i \in 1..Len(sel.calls), checkFails \in BOOLEAN :
        /\ sel.calls[i].pc = "check"
        /\ sel' =
            IF hasOffscreenDocument(sel.document, checkFails)
            THEN [sel EXCEPT !.calls = Remove(@, i), !.keepAlive = TRUE]
            ELSE IF sel.creatingOffscreenPromise # 0
            THEN [sel EXCEPT !.calls[i] =
                     [pc |-> "wait", promise |-> sel.creatingOffscreenPromise]]
            ELSE [sel EXCEPT
                     !.invoked = @ + 1,
                     !.creations = @ \cup {sel.invoked + 1},
                     !.creatingOffscreenPromise = sel.invoked + 1,
                     !.calls[i] = [pc |-> "create", promise |-> sel.invoked + 1]]
    /\ UnchangedButSel

\* the calls that are left when the promise settles: the call that created it
\* has run its finally block, the calls that waited for it check again
RECURSIVE AfterSettled(_, _)
AfterSettled(calls, promise) ==
    IF calls = <<>> THEN <<>>
    ELSE LET call == Head(calls)
             rest == AfterSettled(Tail(calls), promise)
         IN  IF call.promise # promise THEN <<call>> \o rest
             ELSE IF call.pc = "create" THEN rest
             ELSE <<[pc |-> "recheck", promise |-> 0]>> \o rest

\* a creation settles: the document is created unless one exists already, in
\* which case the promise is rejected; the creating call starts or stops the
\* keep-alive ping and resets creatingOffscreenPromise
CreationSettles ==
    /\ \E promise \in sel.creations :
        sel' = [sel EXCEPT
                   !.creations = @ \ {promise},
                   !.document = TRUE,
                   !.keepAlive = ~sel.document,
                   !.creatingOffscreenPromise = 0,
                   !.calls = AfterSettled(@, promise)]
    /\ UnchangedButSel

\* the second hasOffscreenDocument of a call that waited for another call's creation
RecheckReturns ==
    /\ \E i \in 1..Len(sel.calls), checkFails \in BOOLEAN :
        /\ sel.calls[i].pc = "recheck"
        /\ sel' = [sel EXCEPT
                      !.calls = Remove(@, i),
                      !.keepAlive =
                          @ \/ hasOffscreenDocument(sel.document, checkFails)]
    /\ UnchangedButSel

\* the browser closes the offscreen document
DocumentCloses ==
    /\ sel.ops < MaxSetups
    /\ sel.document
    /\ sel' = [sel EXCEPT !.ops = @ + 1, !.document = FALSE]
    /\ UnchangedButSel

\* the interval callback of startKeepAlivePing: the ping stops when the
\* document is found missing
KeepAlivePing ==
    /\ sel.keepAlive
    /\ \E checkFails \in BOOLEAN :
        sel' = [sel EXCEPT !.keepAlive =
                   hasOffscreenDocument(sel.document, checkFails)]
    /\ UnchangedButSel

NextOffscreen ==
    \/ SetupCall
    \/ CheckReturns
    \/ CreationSettles
    \/ RecheckReturns
    \/ DocumentCloses
    \/ KeepAlivePing

SpecOffscreen == InitOffscreen /\ [][NextOffscreen]_vars

(***************************************************************************)
(* Properties of rule compilation and matching                             *)
(***************************************************************************)
\* the rule has no find text, or its find text is a regular expression with
\* a syntax error
FailsToCompile(rule) ==
    \/ rule.find = <<>>
    \/ rule.isRegex /\ ~NewRegExp(rule.find, FALSE).ok

\* the rules of the list that are enabled, pass the domain filter and compile
UsableRules(rules, cs) ==
    LET Usable(r) == /\ r.id \notin cs.disabledRuleIds
                     /\ checkDomainForRule(r, cs.domainList, pageDomain)
                     /\ ~FailsToCompile(r)
    IN  SelectSeq(rules, Usable)

\* the text nodes below document.body whose parent the scanner does not
\* exclude and in which some usable rule has a match
Matching(cs) ==
    LET texts == TextsUnder(World, Body)
        usable == UsableRules(getActiveRules(cs), cs)
    IN  {texts[k] : k \in {j \in 1..Len(texts) :
            /\ dom[dom[texts[j]].parent].tag \notin ExcludedTags
            /\ ~dom[dom[texts[j]].parent].processed
            /\ \E i \in 1..Len(usable) :
                    Exec(createRegExpForRule(usable[i]), dom[texts[j]].value, 0).found}}

\* C22: a rule with empty find text or with a regular expression that does
\* not compile is left out of the applicable rules and nothing fails: the
\* applicable rules of a walk are, in order, all other rules of the bundle,
\* and the walk rewrites every text node one of them matches.
C22_CompileFailuresSkipped ==
    [][FrameWalk =>
        LET cs == currentSettings
            usable == UsableRules(getActiveRules(cs), cs)
            applicable == ApplicableRules(cs)
        IN  /\ Len(applicable) = Len(usable)
            /\ \A i \in 1..Len(usable) :
                /\ applicable[i].rule = usable[i]
                /\ applicable[i].regex.ok
            /\ \A n \in Matching(cs) :
                \E i \in 1..Len(trail') :
                    trail'[i].ev = "rewrite" /\ trail'[i].node = n
            /\ \A i \in 1..Len(trail') : trail'[i].ev \notin {"throw", "filterThrow"}
            /\ ~isProcessing']_vars

\* the bundle is [a regular expression that does not compile, a -> z] and
\* the walk has rewritten the text 'a'
C22_Witness ==
    /\ currentSettings.ruleBundles # <<>>
    /\ currentSettings.ruleBundles[1].rules = <<RuleBadRegex, RuleA>>
    /\ \E i \in TrailIds : trail[i].ev = "rewrite" /\ trail[i].by = "walk"
    /\ \E n \in 1..Len(dom) : dom[n].value = <<"z">>

\* the engine has run with the rule enabled
MatchDone == sel.pc = "done" /\ sel.disabled = {}

\* the find text stands at position p of the text, compared character for
\* character, ignoring case unless the rule is case-sensitive
OccursAt(rule, text, p) ==
    /\ p + Len(rule.find) <= Len(text)
    /\ \A k \in 1..Len(rule.find) :
        IF rule.isCaseSensitive THEN text[p + k] = rule.find[k]
        ELSE Lower(text[p + k]) = Lower(rule.find[k])

\* the piece of text from position p to position e has a word character
\* right in front of it or right behind it
TouchesWord(text, p, e) ==
    \/ p > 0 /\ IsWordChar(text[p])
    \/ e < Len(text) /\ IsWordChar(text[e + 1])

\* C23: for a literal whole-word rule whose find text begins and ends with a
\* word character, the compiled matcher matches at a position iff the find
\* text occurs there with no word character right before it and none right
\* after it.
C23_WholeWord ==
    (/\ MatchDone
     /\ sel.rule.isWholeWord
     /\ IsWordChar(sel.rule.find[1])
     /\ IsWordChar(sel.rule.find[Len(sel.rule.find)]))
        => /\ sel.regex.ok
           /\ \A p \in 0..Len(sel.text) :
                (MatchFrom(sel.regex, 1, sel.text, p) # -1)
                    <=> /\ OccursAt(sel.rule, sel.text, p)
                        /\ ~TouchesWord(sel.text, p, p + Len(sel.rule.find))

\* the text a fragment shows: the values of its pieces, in order
RECURSIVE ShownText(_)
ShownText(fragment) ==
    IF fragment = <<>> THEN <<>>
    ELSE Head(fragment).value \o ShownText(Tail(fragment))

\* the text with every occurrence of the find text from position p on
\* replaced, from left to right, an occurrence beginning where the one before
\* it has ended at the earliest
RECURSIVE ReplacedFrom(_, _, _)
ReplacedFrom(rule, text, p) ==
    IF p >= Len(text) THEN <<>>
    ELSE IF OccursAt(rule, text, p)
    THEN rule.replace \o ReplacedFrom(rule, text, p + Len(rule.find))
    ELSE <<text[p + 1]>> \o ReplacedFrom(rule, text, p + 1)

\* the number of occurrences ReplacedFrom replaces
RECURSIVE OccurrencesFrom(_, _, _)
OccurrencesFrom(rule, text, p) ==
    IF p >= Len(text) THEN 0
    ELSE IF OccursAt(rule, text, p)
    THEN 1 + OccurrencesFrom(rule, text, p + Len(rule.find))
    ELSE OccurrencesFrom(rule, text, p + 1)

\* the text the node shows after the engine has run
TextAfter == IF sel.hasFragment THEN ShownText(sel.fragment) ELSE sel.text

\* C24: a literal rule (not whole-word) matches exactly where its find text
\* stands character for character, in identical case if the rule is
\* case-sensitive and in any case otherwise; the engine replaces every
\* non-overlapping occurrence in the node, from left to right, and nothing
\* else.
C24_LiteralMatch ==
    (MatchDone /\ ~sel.rule.isWholeWord) =>
        /\ sel.regex.ok
        /\ sel.regex.ignoreCase = ~sel.rule.isCaseSensitive
        /\ \A p \in 0..Len(sel.text) :
            (MatchFrom(sel.regex, 1, sel.text, p) # -1) <=> OccursAt(sel.rule, sel.text, p)
        /\ TextAfter = ReplacedFrom(sel.rule, sel.text, 0)
        /\ Cardinality({i \in 1..Len(sel.fragment) : sel.fragment[i].kind = "span"})
            = OccurrencesFrom(sel.rule, sel.text, 0)
        /\ \A i \in 1..Len(sel.fragment) :
            sel.fragment[i].kind = "span" => sel.fragment[i].value = sel.rule.replace

\* the case-sensitive rule m -> x on the text 'Mmbm': the capital M is kept
\* and both occurrences of m are replaced
C24_Witness ==
    /\ MatchDone
    /\ sel.rule.find = <<"m">> /\ sel.rule.isCaseSensitive /\ ~sel.rule.isWholeWord
    /\ sel.text = <<"M", "m", "b", "m">>
    /\ TextAfter = <<"M", "x", "b", "x">>

(***************************************************************************)
(* Properties of the scanner's selection                                   *)
(***************************************************************************)
\* the text nodes a pass has replaced
Rewritten(log) == {log[i].node : i \in {j \in 1..Len(log) : log[j].ev = "rewrite"}}

\* text node n is a candidate: its parent is none of the excluded elements,
\* is not editable and is not a replacement span, and the matcher of some
\* applicable rule, started at position 0, finds an occurrence in its text
IsCandidate(n, applicableRules) ==
    /\ dom[dom[n].parent].tag \notin ExcludedTags
    /\ ~isContentEditable(World, dom[n].parent)
    /\ ~dom[dom[n].parent].processed
    /\ \E i \in 1..Len(applicableRules) :
        Exec(applicableRules[i].regex, dom[n].value, 0).found

\* C25: a walk of document.body that gets as far as the scanner selects, and
\* so rewrites, a text node iff its parent is not a SCRIPT, STYLE, NOSCRIPT,
\* TEXTAREA or INPUT element, not content-editable and not a replacement
\* span, and some applicable rule's matcher, started at position 0, finds an
\* occurrence in the node's text.
C25_ScannerCandidates ==
    [][(FrameWalk /\ WalkScans(World, currentSettings)) =>
        \A k \in 1..Len(TextsUnder(World, Body)) :
            LET n == TextsUnder(World, Body)[k]
            IN  (n \in Rewritten(trail'))
                    <=> IsCandidate(n, ApplicableRules(currentSettings))]_vars

(***************************************************************************)
(* Properties of the engine's effect on the document                       *)
(***************************************************************************)
\* the rule's matcher finds the find text somewhere in the text
MatchesSomewhere ==
    \E p \in 0..Len(sel.text) : MatchFrom(createRegExpForRule(sel.rule), 1, sel.text, p) # -1

\* C26: when the engine runs on a text node in which no applicable rule has
\* an accepted match (the rule matches nowhere, or the rule is disabled), it
\* builds no fragment and the node is untouched: the document is as it was
\* and no mutation record is produced.
C26_NoMatchUntouched ==
    [][(MatchReturn /\ (~MatchesSomewhere \/ sel.rule.id \in sel.disabled)) =>
        /\ ~sel'.hasFragment /\ sel'.fragment = <<>>
        /\ dom' = dom /\ kids' = kids
        /\ records' = <<>>
        /\ trail' = <<>>]_vars

\* the engine has run with the rule m -> x on the text 'bMb' and the text
\* node is still the child of its parent
C26_Witness ==
    /\ sel.pc = "done" /\ sel.disabled = {}
    /\ sel.rule.find = <<"m">> /\ sel.rule.isCaseSensitive
    /\ sel.text = <<"b", "M", "b">>
    /\ kids = InitialKids /\ dom = InitialDom(sel.text)
    /\ records = <<>>

(***************************************************************************)
(* Properties of disabled rules                                            *)
(***************************************************************************)
\* C27: no pass replaces a match of a rule whose id is in the current
\* disabledRuleIds, be it a walk or a watcher batch, and also when the rules
\* of the batch were computed before the id was disabled; the rule is in no
\* applicable rule list computed from the current settings, and it is still
\* in its bundle.
C27_DisabledRuleInert ==
    /\ \A i \in TrailIds :
        trail[i].ev = "rewrite" => trail[i].rules \cap currentSettings.disabledRuleIds = {}
    /\ \A applicable \in {ApplicableRules(currentSettings)} :
        \A k \in 1..Len(applicable) :
            applicable[k].rule.id \notin currentSettings.disabledRuleIds
    /\ \A b \in 1..Len(currentSettings.ruleBundles) :
        \E c \in StoreConfigs :
            currentSettings.ruleBundles[b] \in
                {c.local.ruleBundles[j] : j \in 1..Len(c.local.ruleBundles)}

\* the rules of the default bundle, m -> x among them, are selected while
\* m -> x is disabled; a batch scheduled before the reload has run the engine
\* on the added text 'm', which is still in the document, and the walk of the
\* reload is still due
C27_Witness ==
    /\ currentSettings.disabledRuleIds = {"default_m"}
    /\ \E k \in 1..Len(getActiveRules(currentSettings)) :
        getActiveRules(currentSettings)[k].id = "default_m"
    /\ rafQueue # <<>> /\ Head(rafQueue).kind = "walk"
    /\ \E i \in TrailIds :
        /\ trail[i].ev = "text"
        /\ dom[trail[i].node].value = <<"m">>
        /\ dom[trail[i].node].parent # 0
    /\ \A i \in TrailIds : trail[i].ev # "rewrite"

(***************************************************************************)
(* Properties of the options page and the preloader                        *)
(***************************************************************************)
\* a step of add-rule, remove-rule, edit-rule, reorder or rename
AuthoringStep ==
    OptAddRule \/ OptRemoveRule \/ OptEditRule \/ OptDrop \/ OptRenameBundle

\* the positions of the hardcoded and preloaded bundles of a bundle list
ReadOnlyBundles(bundles) ==
    {i \in 1..Len(bundles) : bundles[i].source # "user"}

\* C28: an add-rule, remove-rule, edit-rule, reorder or rename operation of
\* the options page leaves every hardcoded and every preloaded bundle as it
\* was: its name, its rule list, the order and the fields of its rules.
C28_ReadOnlyBundles ==
    [][AuthoringStep =>
        /\ Len(currentSettings'.ruleBundles) = Len(currentSettings.ruleBundles)
        /\ \A i \in ReadOnlyBundles(currentSettings.ruleBundles) :
               currentSettings'.ruleBundles[i] = currentSettings.ruleBundles[i]]_vars

\* a rule of a copy of the installed bundle has been edited while the
\* installed bundle is in the list, unchanged
C28_Witness ==
    /\ sel.pc = "options"
    /\ currentSettings.ruleBundles[1] = defaultLocalSettings.ruleBundles[1]
    /\ \E i \in 1..Len(currentSettings.ruleBundles) :
        /\ currentSettings.ruleBundles[i].source = "user"
        /\ currentSettings.ruleBundles[i].name = CopyOf \o <<"M", "m">>
        /\ \E k \in 1..Len(currentSettings.ruleBundles[i].rules) :
               currentSettings.ruleBundles[i].rules[k].domainList.type = "whitelist"
        /\ store.local.ruleBundles = currentSettings.ruleBundles

\* the number of bundles of a list flagged isDefault
DefaultCount(bundles) ==
    Cardinality({i \in 1..Len(bundles) : bundles[i].isDefault})

\* C29: from the installed defaults on, whatever bundles are copied,
\* imported, deleted or added by the preloader, at most one bundle is
\* flagged isDefault: in the options page's list, in the stored list and in
\* the list the preloader has read.
C29_OneDefault ==
    sel.pc = "options" =>
        /\ DefaultCount(currentSettings.ruleBundles) <= 1
        /\ DefaultCount(store.local.ruleBundles) <= 1
        /\ DefaultCount(sel.existingBundles) <= 1

\* the stored list holds the installed bundle, a copy of it, a bundle
\* imported from a file that flags it as default and a preloaded bundle
\* whose file flags it as default
C29_Witness ==
    /\ sel.pc = "options"
    /\ DefaultCount(store.local.ruleBundles) = 1
    /\ \E i, j, k \in 1..Len(store.local.ruleBundles) :
        /\ store.local.ruleBundles[i].name = CopyOf \o <<"M", "m">>
        /\ store.local.ruleBundles[j].name = <<"m", "m", " ", "(", "1", ")">>
        /\ store.local.ruleBundles[k].source = "preloaded"

(***************************************************************************)
(* Properties of the tooltip                                               *)
(***************************************************************************)
\* the replacement spans the engine has put in place of the text node
NewSpans ==
    {n \in 1..Len(dom) :
        n > 3 /\ dom[n].tag = "SPAN" /\ dom[n].processed /\ dom[n].parent = 2}

\* the text node's parent is a replacement span
ParentIsProcessedSpan == dom[2].tag = "SPAN" /\ dom[2].processed

\* the text a match of the literal rule is: the find text, in the letter
\* case of the text unless the rule is case-sensitive
IsMatchedText(str) ==
    IF sel.rule.isCaseSensitive THEN str = sel.rule.find
    ELSE ToLowerCase(str) = ToLowerCase(sel.rule.find)

C31_FlagResetAtRest == ~isProcessing
\* the text nodes a step's batch handled as added text nodes and rewrote
BatchRewrittenTexts(log) ==
    {log[i].node : i \in {j \in 1..Len(log) : log[j].ev = "rewrite" /\ log[j].by = "batch"}}
    \cap {log[i].node : i \in {j \in 1..Len(log) : log[j].ev = "text"}}

\* the text node lies directly in a SCRIPT, STYLE, NOSCRIPT, TEXTAREA or
\* INPUT element or in a content-editable region
InExcludedRegion(n) ==
    /\ dom[n].parent # 0
    /\ \/ dom[dom[n].parent].tag \in ExcludedTags
       \/ isContentEditable(World, dom[n].parent)

\* C32: a watcher batch never rewrites a bare text node that was added
\* inside a SCRIPT, STYLE, NOSCRIPT, TEXTAREA or INPUT element or inside a
\* content-editable region.
C32_WatcherHonoursExclusions ==
    [][FrameBatch =>
        \A n \in BatchRewrittenTexts(trail') :
            n \in 1..Len(dom) => ~InExcludedRegion(n)]_vars

(***************************************************************************)
(* Properties of overlapping calls of initialize                           *)
(***************************************************************************)

\* C33: under every interleaving of initialize calls at most one
\* MutationObserver is connected at any time, and when a call that loaded
\* isEnabled = false completes, no observer is connected.
C33_OneObserver ==
    /\ [](sel.connected <= 1)
    /\ [][ReloadLocalRead /\ ~currentSettings'.isEnabled => sel'.connected = 0]_vars

\* two calls overlapped, both have loaded the settings and the observer is
\* connected
C33_Witness ==
    /\ sel.overlapped /\ inits = <<>> /\ ~sel.failed
    /\ currentSettings.isEnabled /\ sel.connected = 1

\* C34: when two initialize calls overlapped and both have completed without
\* a failed read, currentSettings holds the most recent values either of
\* them read from the sync store and from the local store.
C34_LatestReadWins ==
    (sel.overlapped /\ inits = <<>> /\ ~sel.failed)
        => currentSettings = LoadedSettings(Only(sel.lastSync), Only(sel.lastLocal))

\* C35: every settings-changed notification sent by the popup, the options
\* page or either variant of the background script is recognised by the
\* content script's message listener and starts a reload.
C35_NotificationStartsReload ==
    [][ReloadMessage => Len(inits') = Len(inits) + 1]_vars

(***************************************************************************)
(* Properties of the settings pages                                        *)
(***************************************************************************)

\* C36: once the popup has written isEnabled to local storage, a save of the
\* options page never changes the stored flag: it writes the value the popup
\* wrote last.
C36_SaveKeepsEnabled ==
    [][(SaveTimerFires /\ sel.popupWrote)
          => store'.local.isEnabled = store.local.isEnabled]_vars

\* C37: chrome.offscreen.createDocument is never called while a document
\* exists or another creation is under way, and creatingOffscreenPromise is
\* null whenever no creation is under way.
C37_OffscreenSingleton ==
    /\ [](sel.creations = {} => sel.creatingOffscreenPromise = 0)
    /\ [][sel'.invoked > sel.invoked
             => (~sel.document /\ sel.creations = {})]_vars

\* every bundle of the first list is a bundle of the second, rules included
BundlesKept(before, after) ==
    \A i \in 1..Len(before) : \E j \in 1..Len(after) : after[j] = before[i]

\* no two preloaded bundles of the list carry the same name
NoPreloadedTwice(bundles) ==
    \A i, j \in 1..Len(bundles) :
        (i # j /\ bundles[i].source = "preloaded" /\ bundles[j].source = "preloaded")
            => bundles[i].name # bundles[j].name

\* C38: processPreloadedBundles only appends: every bundle stored when it
\* writes, with its rules, is still stored afterwards, also one the options
\* page saved between its read and its write, and no preloaded bundle's name
\* is stored twice.
C38_PreloadOnlyAppends ==
    [][PreloadSave =>
          /\ BundlesKept(store.local.ruleBundles, store'.local.ruleBundles)
          /\ NoPreloadedTwice(store'.local.ruleBundles)]_vars

\* the ids of the hardcoded bundles of a list
HardcodedIds(bundles) ==
    {bundles[i].id : i \in {j \in 1..Len(bundles) : bundles[j].source = "hardcoded"}}

\* C39: a delete in the options page removes no hardcoded bundle, leaves the
\* list non-empty, and leaves activeBundleId naming a bundle of the list.
C39_DeleteKeepsCatalog ==
    [][OptDeleteBundle =>
          /\ HardcodedIds(currentSettings.ruleBundles)
                \subseteq HardcodedIds(currentSettings'.ruleBundles)
          /\ currentSettings'.ruleBundles # <<>>
          /\ (currentSettings' # currentSettings
                => ActiveIndex(currentSettings') # 0)]_vars

\* a bundle was deleted: the list is not empty and activeBundleId names one
\* of its bundles
C39_Witness ==
    /\ sel.pc = "options" /\ sel.deleted
    /\ currentSettings.ruleBundles # <<>>
    /\ ActiveIndex(currentSettings) # 0
=============================================================================
